---- MODULE Spec2Model ----
(***************************************************************************)
(* Client authentication and session lifecycle of the restaurant           *)
(* front-ends: the owner HTTP client (CSRF coordinator, request and        *)
(* response interceptors), the browser storage, and the Redux session      *)
(* slices that drive it.                                                   *)
(*                                                                         *)
(* JavaScript runs one task at a time: a handler runs from the event that  *)
(* wakes it (a network response, a user action) up to the point where      *)
(* every continuation it started is suspended on network I/O again.  Each  *)
(* action below is one such run.                                           *)
(***************************************************************************)
EXTENDS Integers, Sequences, FiniteSets, TLC

\* ---------------------------------------------------------------- bounds
MaxReq == 2          \* data requests the UI may issue (general specification)
StampedeReq == 5     \* data requests of the stampede scenario
MaxCsrf == 2         \* CSRF acquisitions that may be started
InitDispatches == 1   \* App mounts once and dispatches initializeCSRF() once
MaxDepth == 3        \* configs on one request's recovery stack
MaxFail == 3         \* failures the server may answer (401, 403, 5xx, bad body)
Stampede403 == 2     \* 403 answers the server may give in the stampede scenario
MaxSess == 3         \* calls of session operations that may be pending at once
MaxLogout == 2       \* times the user may log out
MaxFetch == 1        \* profile fetches that may be dispatched
SessFail == 1        \* failures the server may answer in the session scenario

NReq == IF MaxReq > StampedeReq THEN MaxReq ELSE StampedeReq
Reqs == 1..NReq
Csrfs == (NReq + 1)..(NReq + MaxCsrf)
Inits == (NReq + MaxCsrf + 1)..(NReq + MaxCsrf + InitDispatches)
Sess == (NReq + MaxCsrf + InitDispatches + 1)..(NReq + MaxCsrf + InitDispatches + MaxSess)
Tasks == Reqs \cup Csrfs \cup Inits \cup Sess

LeftoverCsrf == 1        \* a CSRF token left in storage by an earlier visit
OldAccess == 1           \* the access token found in storage at start
NewAccess == 2           \* response.data.access of a successful refresh
UserData == 1            \* the owner object GET /owner/auth/me/ returns
UnverifiedUser == 2      \* a user object whose email_verified is false
StaffManager == 3        \* a staff user with a staff_profile: manager of restaurant 1
StaffCashier == 4        \* a staff user with a staff_profile: cashier of restaurant 2
StaffNoProfile == 5      \* a staff user without staff_profile
CustomerUser == 6        \* a user whose user_type is 'customer'
UnverifiedStaff == 7     \* the manager, with email_verified false
NoFlagUser == 8          \* the owner object without an email_verified field
LoginToken == 3          \* tokens.access / tokens.refresh of a login response
OwnerType == 1           \* localStorage pendingUserType 'owner' (0 = absent)
MaxEmail == 2            \* e-mail addresses typed into the forms
MaxOps == 2              \* authentication operations the user starts
AuthReq == 1             \* customer requests in the authentication scenario
MaxRender == 2           \* evaluations of a route guard
AuthFail == 1            \* failures the server gives in the authentication scenario
Google == 1              \* socialLogin provider 'google'
Facebook == 2            \* socialLogin provider 'facebook'
OtherProvider == 3       \* any other provider string

Emails == 1..MaxEmail

\* user.user_type
user_type(u) ==
  CASE u \in {StaffManager, StaffCashier, StaffNoProfile, UnverifiedStaff} -> "staff"
    [] u = CustomerUser -> "customer"
    [] OTHER -> "owner"

\* response.user of a response body: "200u" carries email_verified false,
\* "200n" no email_verified field, "2fa" no user at all.
RawUser(body) ==
  CASE body = "200u" -> UnverifiedUser
    [] body = "200n" -> NoFlagUser
    [] body = "2fa" -> 0
    [] OTHER -> UserData

\* { ...user, email_verified: user.email_verified !== undefined ?
\*   user.email_verified : assumed }
WithDefault(u, assumed) ==
  IF u = NoFlagUser THEN (IF assumed THEN UserData ELSE UnverifiedUser) ELSE u

VARIABLES
  app,                    \* which front-end runs in this browser tab
  cust,                   \* the customer front-end: requests, storage, cookie, slice
  tasks,                  \* pending promises: one per request / acquisition / thunk
  csrfToken,              \* module variable csrfToken (0 = null)
  isInitialized,          \* module variable isInitialized
  initializationPromise,  \* module variable: 0 = null, else the acquisition's id
  initializationCount,    \* module variable initializationCount
  ls,                     \* localStorage
  auth,                   \* Redux slice "auth"
  ownerAuth,              \* Redux slice "ownerAuth"
  srv,                    \* the server: answers given so far and its limits
  gh                      \* history of the run and the user's budget of actions

vars == <<app, cust, tasks, csrfToken, isInitialized, initializationPromise,
          initializationCount, ls, auth, ownerAuth, srv, gh>>

\* The whole state as one record, so that handlers compose as functions.
St == [app |-> app, cust |-> cust, tasks |-> tasks, csrfToken |-> csrfToken, isInitialized |-> isInitialized,
       initializationPromise |-> initializationPromise,
       initializationCount |-> initializationCount, ls |-> ls, auth |-> auth,
       ownerAuth |-> ownerAuth, srv |-> srv,
       gh |-> [gh EXCEPT !.ended = "none",
                         !.did = [op |-> "none", out |-> "none", arg |-> 0]],
       ovf |-> FALSE]

\* A handler that would pass a bound of the model marks the state it returns;
\* Apply refuses such a step.
Overflow(S) == [S EXCEPT !.ovf = TRUE]

Apply(S) ==
  /\ ~S.ovf
  /\ app' = S.app
  /\ cust' = S.cust
  /\ tasks' = S.tasks
  /\ csrfToken' = S.csrfToken
  /\ isInitialized' = S.isInitialized
  /\ initializationPromise' = S.initializationPromise
  /\ initializationCount' = S.initializationCount
  /\ ls' = S.ls
  /\ auth' = S.auth
  /\ ownerAuth' = S.ownerAuth
  /\ srv' = S.srv
  /\ gh' = S.gh

\* ------------------------------------------------------- requests (configs)
FreeTask == [phase |-> "free", op |-> "none", stack |-> <<>>, on |-> 0,
             res |-> "none", note |-> "none", by |-> "none", peer |-> 0, arg |-> 0]

\* post, put, patch, delete
isStateChangingMethod(kind) == kind \in {"data", "refresh", "logout"}

isCSRFRequest(f) == f.kind = "csrfget"

\* Request interceptor: the X-CSRFToken header of a config about to be sent.
\* A header already on the config stays when nothing overwrites it.
RequestInterceptor(S, f) ==
  IF isStateChangingMethod(f.kind) /\ ~isCSRFRequest(f) /\ S.csrfToken # 0
    THEN [f EXCEPT !.xcsrf = S.csrfToken]
    ELSE f

NewConfig(kind) == [kind |-> kind, cr |-> FALSE, rt |-> FALSE,
                    xcsrf |-> 0, n403 |-> 0, n401 |-> 0, r403 |-> 0, r401 |-> 0]

Top(tk) == tk.stack[Len(tk.stack)]

SetTop(tk, f) == [tk EXCEPT !.stack[Len(tk.stack)] = f]

CountGet(S, f) ==
  IF isCSRFRequest(f) THEN [S EXCEPT !.gh.csrfGets = @ + 1] ELSE S

\* api(config): the config on top of t's stack goes out on the network.
SendTop(S, t) ==
  LET f == RequestInterceptor(S, Top(S.tasks[t]))
  IN  CountGet([S EXCEPT !.tasks[t] = [SetTop(@, f) EXCEPT !.phase = "inflight", !.on = 0]], f)

\* ------------------------------------------------- session operations
\* A session operation calls api.get / api.post: the call takes a free slot.
FreeSlots(S) == {x \in Sess : S.tasks[x].phase = "free"}

Slot(S) == CHOOSE x \in FreeSlots(S) : \A y \in FreeSlots(S) : x <= y

StartCall(S, op, kind, by) ==
  IF FreeSlots(S) = {} THEN Overflow(S)
  ELSE SendTop([S EXCEPT !.tasks[Slot(S)] =
                  [FreeTask EXCEPT !.op = op, !.by = by, !.stack = <<NewConfig(kind)>>]],
               Slot(S))

\* authSlice.js lines 308-332
clearAuth(S) ==
  [S EXCEPT !.auth = [@ EXCEPT !.user = 0, !.owner = 0, !.token = 0, !.refreshToken = 0,
                               !.isAuthenticated = FALSE, !.isOwner = FALSE,
                               !.requires2FA = FALSE, !.tempLoginData = 0,
                               !.loginError = FALSE, !.requiresVerification = FALSE,
                               !.verificationError = FALSE],
            !.ls = [token |-> 0, refreshToken |-> 0, csrfToken |-> 0,
                    pendingVerificationEmail |-> 0, pendingUserType |-> 0]]

\* authService.logout (owner), lines 71-73: reached when the POST succeeded
RemoveTokens(S) ==
  [S EXCEPT !.ls = [@ EXCEPT !.token = 0, !.refreshToken = 0, !.csrfToken = 0]]

\* A logout entry point has returned.
Ended(S, what) ==
  [S EXCEPT !.gh.ended = what,
            !.gh.loggedOut = @ \/ what \in {"logout", "performLogout"},
            !.gh.running = IF what \in {"logout", "performLogout"} /\ @ > 0
                             THEN @ - 1 ELSE @]

\* ownerAuthSlice reducer logoutOwner, lines 38-43: the promise of
\* authService.logout() is dropped.
logoutOwner(S, by) ==
  StartCall([S EXCEPT !.ownerAuth.owner = 0], "logoutOwner", "logout", by)

\* authSlice.js lines 231-243: the logout thunk up to its await.
logout(S, by) == StartCall(S, "logout", "logout", by)

\* The POST /auth/logout/ of a logout thunk has settled: the thunk finishes,
\* and with it performLogout (logoutActions.js lines 5-15) when that awaits it.
LogoutSettled(S0, t) ==
  LET ok == S0.tasks[t].phase = "ok"
      by == S0.tasks[t].by
      S == [S0 EXCEPT !.tasks[t] = FreeTask]
      S1 == IF ok THEN clearAuth(RemoveTokens(S)) ELSE clearAuth(S)
  IN  IF by = "perform"
        THEN IF ok THEN Ended(logoutOwner(S1, "perform"), "performLogout")
             ELSE Ended(logoutOwner(logout(S1, "catch"), "perform"), "performLogout")
      ELSE IF by = "ui" THEN Ended(S1, "logout")
      ELSE S1

\* The POST /auth/logout/ sent by the logoutOwner reducer has settled; nothing
\* handles its rejection.
LogoutOwnerSettled(S0, t) ==
  LET ok == S0.tasks[t].phase = "ok"
      by == S0.tasks[t].by
      S == [S0 EXCEPT !.tasks[t] = FreeTask]
      S1 == IF ok THEN RemoveTokens(S) ELSE [S EXCEPT !.gh.unhandled = by]
  IN  IF by = "header" THEN Ended(S1, "handleLogout") ELSE S1

\* loadUserFromToken.rejected, authSlice.js lines 479-484, after the thunk's
\* catch (lines 107-112) removed the tokens
LoadUserRejected(S) ==
  [S EXCEPT !.ls = [@ EXCEPT !.token = 0, !.refreshToken = 0],
            !.auth = [@ EXCEPT !.loading = FALSE, !.isAuthenticated = FALSE,
                               !.user = 0, !.owner = 0]]

\* (variant) the reducer flips isOwner instead of assigning it
LoadUserFulfilledFlips(S, body) ==
  LET user == WithDefault(RawUser(body), TRUE)
  IN  [S EXCEPT !.auth = [@ EXCEPT !.loading = FALSE, !.user = user, !.owner = user,
                                   !.isAuthenticated = TRUE, !.isOwner = ~@]]

\* loadUserFromToken.fulfilled, authSlice.js lines 451-478
LoadUserFulfilled(S, body) ==
  LET user == WithDefault(RawUser(body), TRUE)
  IN  [S EXCEPT !.auth = [@ EXCEPT !.loading = FALSE, !.user = user, !.owner = user,
                                   !.isAuthenticated = TRUE,
                                   !.isOwner = user_type(user) = "owner"]]

LoadUserSettled(S0, t) ==
  LET S == [S0 EXCEPT !.tasks[t] = FreeTask,
                      !.gh.did = [op |-> "me", out |-> S0.tasks[t].res, arg |-> 0]]
  IN  IF S0.tasks[t].phase = "ok" THEN LoadUserFulfilled(S, S0.tasks[t].res)
      ELSE LoadUserRejected(S)

\* fetchOwnerProfile (ownerAuthSlice lines 5-21, 47-59): one of the two calls
\* under Promise.all has settled.
ProfileSettled(S, t) ==
  LET ok == S.tasks[t].phase = "ok"
      p == S.tasks[t].peer
      pph == S.tasks[p].phase
      both == [S EXCEPT !.tasks[t] = FreeTask, !.tasks[p] = FreeTask]
  IN  IF pph = "ok"
        THEN IF ok THEN [both EXCEPT !.ownerAuth = [owner |-> UserData, loading |-> FALSE]]
             ELSE [both EXCEPT !.ownerAuth.loading = FALSE]
      ELSE IF pph = "err" THEN both
      ELSE IF ok THEN S
      ELSE [S EXCEPT !.ownerAuth.loading = FALSE]

\* ------------------------------------------- authentication operations
\* The thunks of authSlice.js that post to an authentication endpoint.
AuthOps == {"ownerLogin", "ownerRegister", "verifyEmailCode", "ownerVerifyCode",
            "verify2FACode", "socialLogin"}

\* The operation whose promise settled in this step, the server's answer to it
\* and the argument it was dispatched with.
Did(S, tk) == [S EXCEPT !.gh.did = [op |-> tk.op, out |-> tk.res, arg |-> tk.arg]]

\* An operation posts its request; arg is what the thunk was dispatched with.
StartAuth(S, op, arg) ==
  IF FreeSlots(S) = {} THEN Overflow(S)
  ELSE [StartCall(S, op, "data", "ui") EXCEPT !.tasks[Slot(S)].arg = arg]

\* authSlice.js lines 290-298
clearError(S) ==
  [S EXCEPT !.auth.loginError = FALSE, !.auth.requiresVerification = FALSE,
            !.auth.verificationError = FALSE, !.auth.csrfError = 0]

\* The user object the ownerLogin thunk returns (authSlice.js lines 40-43).
UserOf(body) == WithDefault(RawUser(body), FALSE)

email_verified(u) == u \notin {UnverifiedUser, UnverifiedStaff, NoFlagUser}

\* (variant) every rejected login is taken for an unverified account
OwnerLoginRejectedUnverified(S, email, notVerified) ==
  [S EXCEPT !.auth.loginError = TRUE, !.auth.requiresVerification = TRUE,
            !.ls.pendingVerificationEmail = email, !.ls.pendingUserType = OwnerType]

\* The catch of the ownerLogin thunk (authSlice.js lines 49-64) and
\* ownerLogin.rejected (lines 421-431).  notVerified: the error text of the
\* response includes 'not verified' or 'not activated'.  requiresVerification
\* is loginError.requiresVerification.
OwnerLoginRejected(S, email, notVerified) ==
  IF notVerified
    THEN [S EXCEPT !.auth.loginError = TRUE, !.auth.requiresVerification = TRUE,
                   !.ls.pendingVerificationEmail = email,
                   !.ls.pendingUserType = OwnerType]
    ELSE [S EXCEPT !.auth.loginError = TRUE, !.auth.requiresVerification = FALSE]

\* ownerLogin.fulfilled, authSlice.js lines 390-420
OwnerLoginFulfilled(S, body, arg) ==
  IF body = "2fau"
    THEN [S EXCEPT !.auth.requires2FA = TRUE, !.auth.tempLoginData = arg]
    ELSE [S EXCEPT !.auth = [@ EXCEPT !.user = UserOf(body), !.owner = UserOf(body),
                                     !.token = LoginToken, !.refreshToken = LoginToken,
                                     !.isAuthenticated = TRUE, !.isOwner = TRUE],
                   !.ls = [@ EXCEPT !.token = LoginToken, !.refreshToken = LoginToken,
                                    !.pendingVerificationEmail = 0, !.pendingUserType = 0],
                   !.gh.rec = [body |-> body, user |-> UserOf(body), at |-> S.gh.ops]]

\* The ownerLogin thunk (authSlice.js lines 33-66) after its await, with
\* authService.ownerLogin (lines 7-15).  A body without a user makes line 42
\* throw inside the try, so the thunk rejects with { error: message }.  A 400
\* answer carries the error text 'not verified'.
OwnerLoginSettled(S0, t) ==
  LET tk == S0.tasks[t]
      S == Did([S0 EXCEPT !.tasks[t] = FreeTask], tk)
  IN  IF tk.phase = "ok"
        THEN IF tk.res = "2fa" THEN OwnerLoginRejected(S, tk.arg, FALSE)
             ELSE IF tk.res = "2fau" THEN OwnerLoginFulfilled(S, tk.res, tk.arg)
             ELSE OwnerLoginFulfilled([S EXCEPT !.ls.refreshToken = LoginToken],
                                      tk.res, tk.arg)
      ELSE OwnerLoginRejected(S, tk.arg, tk.res = "E400")

\* (variant) registering logs the new owner in
OwnerRegisterFulfilledLogsIn(S, email) ==
  [S EXCEPT !.ls.pendingVerificationEmail = email, !.ls.pendingUserType = OwnerType,
            !.auth.isAuthenticated = TRUE, !.auth.user = UnverifiedUser]

\* The ownerRegister thunk after its await (authSlice.js lines 74-76),
\* ownerRegister.fulfilled (lines 438-441) and the rest of OwnerRegister.jsx
\* handleSubmit (lines 160-165)
OwnerRegisterFulfilled(S, email) ==
  [S EXCEPT !.ls.pendingVerificationEmail = email, !.ls.pendingUserType = OwnerType]

\* The ownerRegister thunk (authSlice.js lines 69-81) has its answer.
OwnerRegisterSettled(S0, t) ==
  LET tk == S0.tasks[t]
      S == Did([S0 EXCEPT !.tasks[t] = FreeTask], tk)
  IN  IF tk.phase = "ok" THEN OwnerRegisterFulfilled(S, tk.arg) ELSE S

\* (variant) a failed verification forgets the pending registration
VerificationRejectedForgets(S) ==
  [S EXCEPT !.auth.verificationError = TRUE,
            !.ls.pendingVerificationEmail = 0, !.ls.pendingUserType = 0]

\* verifyEmailCode.rejected (authSlice.js lines 497-500), the same as
\* ownerVerifyCode.rejected (lines 539-542) and verify2FACode.rejected (563-566)
VerificationRejected(S) == [S EXCEPT !.auth.verificationError = TRUE]

\* The localStorage.removeItem pair of authSlice.js lines 122-123, 161-162,
\* 335-336 and EmailVerification.jsx lines 91-92.
RemoveMarker(S) ==
  [S EXCEPT !.ls.pendingVerificationEmail = 0, !.ls.pendingUserType = 0]

\* The verifyEmailCode thunk (authSlice.js lines 117-129), its reducers (lines
\* 491-500) and the rest of EmailVerification.jsx handleSubmit (lines 89-116).
VerifyEmailCodeSettled(S0, t) ==
  LET tk == S0.tasks[t]
      S == Did([S0 EXCEPT !.tasks[t] = FreeTask], tk)
  IN  IF tk.phase = "ok"
        THEN [RemoveMarker(S) EXCEPT !.auth.user = UserOf(tk.res),
                                     !.auth.isAuthenticated = TRUE]
        ELSE VerificationRejected(S)

\* The ownerVerifyCode thunk (authSlice.js lines 156-168), its reducers (lines
\* 535-542) and the rest of EmailVerification.jsx handleSubmit (lines 89-116).
OwnerVerifyCodeSettled(S0, t) ==
  LET tk == S0.tasks[t]
      S == Did([S0 EXCEPT !.tasks[t] = FreeTask], tk)
  IN  IF tk.phase = "ok" THEN RemoveMarker(S) ELSE VerificationRejected(S)

\* (variant) the 2FA prompt stays up after a successful second step
Verify2FAFulfilledKeepsPrompt(S, body) ==
  [S EXCEPT !.auth = [@ EXCEPT !.user = UserOf(body), !.token = LoginToken,
                               !.refreshToken = LoginToken, !.isAuthenticated = TRUE,
                               !.isOwner = TRUE],
            !.ls = [@ EXCEPT !.token = LoginToken, !.refreshToken = LoginToken]]

\* verify2FACode.fulfilled, authSlice.js lines 549-562
Verify2FAFulfilled(S, body) ==
  [S EXCEPT !.auth = [@ EXCEPT !.user = UserOf(body), !.token = LoginToken,
                               !.refreshToken = LoginToken, !.isAuthenticated = TRUE,
                               !.isOwner = TRUE, !.requires2FA = FALSE,
                               !.tempLoginData = 0],
            !.ls = [@ EXCEPT !.token = LoginToken, !.refreshToken = LoginToken]]

\* The verify2FACode thunk (authSlice.js lines 171-184) with authService.login
\* (lines 57-65).  TwoFactorAuth.jsx line 34 compares the result's type with
\* 'auth/verify2FA/fulfilled', which no action has, so the handler does nothing
\* more.
Verify2FASettled(S0, t) ==
  LET tk == S0.tasks[t]
      S == Did([S0 EXCEPT !.tasks[t] = FreeTask], tk)
  IN  IF tk.phase = "ok"
        THEN Verify2FAFulfilled([S EXCEPT !.ls.refreshToken = LoginToken], tk.res)
        ELSE VerificationRejected(S)

\* The socialLogin thunk (authSlice.js lines 187-210), its reducers (lines
\* 569-579) and the rest of OwnerLogin.jsx handleGoogleSuccess (lines 45-57).
SocialLoginSettled(S0, t) ==
  LET tk == S0.tasks[t]
      S == Did([S0 EXCEPT !.tasks[t] = FreeTask], tk)
      user == RawUser(tk.res)
      tokens == tk.res \notin {"2fa", "2fau"}
  IN  IF tk.phase = "ok"
        THEN [S EXCEPT !.auth = [@ EXCEPT !.user = user,
                                         !.token = IF tokens THEN LoginToken ELSE 0,
                                         !.refreshToken = IF tokens THEN LoginToken ELSE 0,
                                         !.isAuthenticated = TRUE,
                                         !.isOwner = user # 0 /\ user_type(user) = "owner"],
                       !.ls = IF tokens
                                THEN [@ EXCEPT !.token = LoginToken, !.refreshToken = LoginToken]
                                ELSE @]
        ELSE [S EXCEPT !.auth.loginError = TRUE, !.auth.requiresVerification = FALSE]

Providers == {Google, Facebook, OtherProvider}

\* The else branch of the socialLogin thunk (authSlice.js line 197) throws
\* inside the try; the error has no response, so the catch (lines 206-208)
\* rejects with { error: `${provider} authentication failed` }, which
\* socialLogin.rejected (lines 577-579) stores as loginError.
SocialLoginThrown(S, provider) ==
  [S EXCEPT !.auth.loginError = TRUE, !.auth.requiresVerification = FALSE,
            !.gh.did = [op |-> "socialLogin", out |-> "authentication failed", arg |-> provider]]

\* The socialLogin thunk up to its await, authSlice.js lines 187-198.
socialLogin(S, provider) ==
  IF provider \in {Google, Facebook} THEN StartAuth(S, "socialLogin", provider)
  ELSE SocialLoginThrown(S, provider)

\* ------------------------------------------------ settling a request's promise
\* authSlice.js lines 7-30 and 375-378: the initializeCSRF thunk catches a
\* failure of initializeApp() and returns normally, so it is always fulfilled
\* and the rejected reducer (lines 379-383), the only writer of a non-null
\* csrfError, never runs.
InitializeCSRFSettled(S) == [S EXCEPT !.auth.csrfInitialized = TRUE]

\* The promise of a request or thunk that is not a CSRF acquisition settles.
\* The original config stays reachable (error.config), so the bottom of the
\* stack is kept.
SettleOther(S, t, outcome, val, note) ==
  LET S1 == [S EXCEPT !.tasks[t] = [@ EXCEPT !.phase = outcome, !.res = val, !.note = note,
                         !.on = 0, !.stack = SubSeq(@, 1, IF Len(@) > 0 THEN 1 ELSE 0)]]
  IN  CASE S.tasks[t].op = "init" -> InitializeCSRFSettled(S1)
        [] S.tasks[t].op = "logout" -> LogoutSettled(S1, t)
        [] S.tasks[t].op = "logoutOwner" -> LogoutOwnerSettled(S1, t)
        [] S.tasks[t].op = "me" -> LoadUserSettled(S1, t)
        [] S.tasks[t].op = "profile" -> ProfileSettled(S1, t)
        [] S.tasks[t].op = "ownerLogin" -> OwnerLoginSettled(S1, t)
        [] S.tasks[t].op = "ownerRegister" -> OwnerRegisterSettled(S1, t)
        [] S.tasks[t].op = "verifyEmailCode" -> VerifyEmailCodeSettled(S1, t)
        [] S.tasks[t].op = "ownerVerifyCode" -> OwnerVerifyCodeSettled(S1, t)
        [] S.tasks[t].op = "verify2FACode" -> Verify2FASettled(S1, t)
        [] S.tasks[t].op = "socialLogin" -> SocialLoginSettled(S1, t)
        [] OTHER -> S1

\* (variant) the in-flight check is left out: every caller starts a fetch
PendingInitIgnored(S) == FALSE

\* getCSRFToken line 27: an acquisition is already in flight.
PendingInit(S) == S.initializationPromise # 0

\* Response interceptor, line 103-105: the 403 branch is taken.
CsrfRecoverable(f) == ~f.cr /\ ~isCSRFRequest(f)

\* (variant) the _retry flag is not consulted
TokenRecoverableAlways(f) == TRUE

\* Response interceptor, line 122: the 401 branch is taken.
TokenRecoverable(f) == ~f.rt

RECURSIVE SettleCsrf(_, _, _, _)
RECURSIVE ResumeAll(_, _, _, _)
RECURSIVE RejectConfig(_, _, _, _)

\* The request on top of t's stack is rejected with error e.  A refresh call
\* that fails lands in its caller's catch (line 138), which logs and rejects
\* the caller with the caller's own 401 error (line 143); so a failure above
\* the bottom of the stack rejects every config below it.
RejectConfig(S, t, e, note) ==
  LET tk == S.tasks[t]
      nested == Len(tk.stack) > 1
      err == IF nested THEN "E401" ELSE e
      nt == IF nested THEN "refreshfail" ELSE note
  IN  IF tk.op = "csrf" THEN SettleCsrf(S, t, "err", err)
      ELSE SettleOther(S, t, "err", err, nt)

\* (variant) a failed refresh leaves the 403 to the rest of the interceptor
ResumeWaiterFallsThrough(S, w, outcome) ==
  LET tk == S.tasks[w]
  IN  IF tk.stack = <<>>
        THEN SettleOther(S, w, outcome, IF outcome = "ok" THEN "OK" ELSE "ECSRF", "none")
      ELSE IF outcome = "ok" /\ S.csrfToken # 0
        THEN LET f == [Top(tk) EXCEPT !.xcsrf = S.csrfToken, !.n403 = @ + 1]
             IN  SendTop([S EXCEPT !.tasks[w] = SetTop(tk, f)], w)
      ELSE RejectConfig(S, w, "E403", "none")

\* A caller that awaited getCSRFToken(...) continues.
ResumeWaiter(S, w, outcome) ==
  LET tk == S.tasks[w]
  IN  IF tk.stack = <<>>
        THEN SettleOther(S, w, outcome, IF outcome = "ok" THEN "OK" ELSE "ECSRF", "none")
      ELSE IF outcome = "ok"
        THEN IF S.csrfToken # 0
               \* lines 111-113: reattach the token and resend once
               THEN LET f == [Top(tk) EXCEPT !.xcsrf = S.csrfToken, !.n403 = @ + 1]
                    IN  SendTop([S EXCEPT !.tasks[w] = SetTop(tk, f)], w)
               \* no token: falls through to line 143
               ELSE RejectConfig(S, w, "E403", "none")
      \* line 115-117
      ELSE RejectConfig(S, w, "SEC", "none")

\* (variant) only the first of the callers is resumed
ResumeFirstOnly(S, p, W, outcome) ==
  IF W = {} THEN S
  ELSE LET w == CHOOSE x \in W : \A y \in W : x <= y
       IN  IF S.tasks[w].phase = "awaitCsrf" /\ S.tasks[w].on = p
             THEN ResumeWaiter(S, w, outcome) ELSE S

ResumeAll(S, p, W, outcome) ==
  IF W = {} THEN S
  ELSE LET w == CHOOSE x \in W : \A y \in W : x <= y
           S1 == IF S.tasks[w].phase = "awaitCsrf" /\ S.tasks[w].on = p
                   THEN ResumeWaiter(S, w, outcome) ELSE S
       IN  ResumeAll(S1, p, W \ {w}, outcome)

\* The async body of getCSRFToken (lines 35-70) continues after api.get
\* settled: val is the csrfToken of the response body (0: none) when the
\* call succeeded, the error otherwise.
SettleCsrf(S, t, outcome, val) ==
  LET good == outcome = "ok" /\ val # 0
      clear == outcome = "err" /\ val \in {"E403", "E401"}
      S1 == [S EXCEPT
               !.csrfToken = IF good THEN val ELSE IF clear THEN 0 ELSE @,
               !.ls.csrfToken = IF good THEN val ELSE IF clear THEN 0 ELSE @,
               !.isInitialized = IF good THEN TRUE ELSE IF clear THEN FALSE ELSE @,
               !.initializationPromise = 0,
               !.gh.csrfSettled = @ + 1,
               !.tasks[t] = [@ EXCEPT !.phase = IF good THEN "ok" ELSE "err",
                                      !.res = IF good THEN "OK"
                                              ELSE IF outcome = "ok" THEN "ENOTOKEN" ELSE val,
                                      !.on = 0, !.stack = SubSeq(@, 1, 1)]]
      W == {w \in Tasks : S.tasks[w].phase = "awaitCsrf" /\ S.tasks[w].on = t} \ {t}
  IN  ResumeAll(S1, t, W, IF good THEN "ok" ELSE "err")

\* getCSRFToken(forceRefresh), lines 22-73, called and awaited by task w.
GetCSRFToken(S, w, forceRefresh) ==
  IF ~forceRefresh /\ S.csrfToken # 0 THEN ResumeWaiter(S, w, "ok")
  ELSE IF PendingInit(S)
    THEN [S EXCEPT !.tasks[w].phase = "awaitCsrf", !.tasks[w].on = S.initializationPromise]
  ELSE IF S.initializationCount >= MaxCsrf THEN Overflow(S)
  ELSE LET id == NReq + S.initializationCount + 1
           S1 == [S EXCEPT !.initializationCount = @ + 1,
                           !.initializationPromise = id,
                           !.tasks[id] = [FreeTask EXCEPT !.op = "csrf",
                                            !.stack = <<NewConfig("csrfget")>>],
                           !.tasks[w].phase = "awaitCsrf",
                           !.tasks[w].on = id]
       IN  SendTop(S1, id)

\* initializeApp(), lines 148-162, called and awaited by task w.
InitializeApp(S, w) ==
  IF S.isInitialized /\ S.csrfToken # 0 THEN ResumeWaiter(S, w, "ok")
  ELSE IF S.initializationPromise # 0
    THEN [S EXCEPT !.tasks[w].phase = "awaitCsrf", !.tasks[w].on = S.initializationPromise]
  ELSE GetCSRFToken(S, w, FALSE)

ErrOf(s) == CASE s = "401" -> "E401" [] s = "403" -> "E403" [] s = "400" -> "E400"
                 [] OTHER -> "E500"

\* The server's answer s to the request on top of t's stack arrives: the
\* response interceptor (lines 97-145) and whatever awaited the call run.
\* v is the csrfToken field of the body of a 200 answer to GET /auth/csrf/.
Respond(S0, t, s, v) ==
  LET f == [Top(S0.tasks[t]) EXCEPT !.r403 = IF s = "403" THEN @ + 1 ELSE @,
                                    !.r401 = IF s = "401" THEN @ + 1 ELSE @]
      S == [S0 EXCEPT !.tasks[t] = SetTop(@, f)]
      tk == S.tasks[t]
  IN  IF s = "200"
        THEN IF Len(tk.stack) = 1
               THEN IF tk.op = "csrf" THEN SettleCsrf(S, t, "ok", v)
                    ELSE SettleOther(S, t, "ok", "OK", "none")
               \* lines 132-136: the refresh call returned; store the new access
               \* token and resend the request that had received 401
               ELSE LET below == SubSeq(tk.stack, 1, Len(tk.stack) - 1)
                        g == [below[Len(below)] EXCEPT !.n401 = @ + 1]
                        S1 == [S EXCEPT !.ls.token = NewAccess,
                                        !.tasks[t].stack = [below EXCEPT ![Len(below)] = g]]
                    IN  SendTop(S1, t)
      ELSE IF s = "403" /\ CsrfRecoverable(f)
        THEN GetCSRFToken([S EXCEPT !.tasks[t] = SetTop(tk, [f EXCEPT !.cr = TRUE])], t, TRUE)
      ELSE IF s = "401" /\ TokenRecoverable(f)
        THEN LET S1 == [S EXCEPT !.tasks[t] = SetTop(tk, [f EXCEPT !.rt = TRUE])]
             IN  IF S.ls.refreshToken # 0
                   THEN IF Len(tk.stack) >= MaxDepth THEN Overflow(S)
                        ELSE SendTop([S1 EXCEPT !.tasks[t].stack =
                                        Append(@, NewConfig("refresh"))], t)
                   ELSE RejectConfig(S1, t, "E401", "norefresh")
      ELSE RejectConfig(S, t, ErrOf(s), "none")

\* ------------------------------------------- the customer HTTP client
FreeReq == [phase |-> "free", retry |-> FALSE, xcsrf |-> 0, csrfget |-> FALSE,
            n403 |-> 0, n401 |-> 0, r403 |-> 0, r401 |-> 0, note |-> "none"]

\* customer api.js lines 6-10: the csrftoken cookie, 0 when there is none
getCSRFToken(S) == S.cust.cookie

\* authSlice initialState (restaurantSlice.js lines 135-144)
CustAuth(l) == [user |-> l.user, isAuthenticated |-> l.access_token # 0]

\* ensureCSRFToken line 16: no cookie, so GET /auth/csrf/ is sent with axios
NeedsFetch(S) == getCSRFToken(S) = 0

\* api(config): the request interceptor (lines 41-57) runs ensureCSRFToken
\* for a non-GET request and sends the request once that has returned.
CustSend(S, t) ==
  \* line 44: a GET skips ensureCSRFToken; the headers of the config stay as
  \* they are.  The only GET of the model is csrfService.getToken's.
  IF S.cust.reqs[t].csrfget
    THEN [S EXCEPT !.cust.reqs[t].phase = "inflight", !.cust.gets = @ + 1]
  ELSE IF NeedsFetch(S)
    THEN [S EXCEPT !.cust.reqs[t].phase = "ensure", !.cust.gets = @ + 1]
    ELSE [S EXCEPT !.cust.reqs[t].phase = "inflight",
                   !.cust.reqs[t].xcsrf = getCSRFToken(S)]

\* The answer to the GET /auth/csrf/ of an ensureCSRFToken() call arrives:
\* tok is response.data.csrfToken (0 when the call failed, line 23-25), ck
\* the csrftoken cookie the browser now shows.
CustCsrfArrives(S0, t, tok, ck) ==
  LET S == [S0 EXCEPT !.cust.cookie = ck]
  IN  IF S.cust.reqs[t].phase = "ensure"
        \* request interceptor lines 47-49, then the request goes out
        THEN [S EXCEPT !.cust.reqs[t].phase = "inflight",
                       !.cust.reqs[t].xcsrf = IF tok # 0 THEN tok ELSE @]
        \* response interceptor lines 76-77
        ELSE CustSend([S EXCEPT !.cust.reqs[t].xcsrf = tok], t)

\* csrfService.getToken (csrf.js lines 4-14): GET /auth/csrf/ through api.
getToken(S, t) == CustSend([S EXCEPT !.cust.reqs[t].csrfget = TRUE], t)

\* csrfService.ensureToken (csrf.js lines 16-23): the cookie's token when
\* there is one, else getToken().
ensureToken(S, t) ==
  IF getCSRFToken(S) # 0 THEN [S EXCEPT !.cust.reqs[t].phase = "ok"]
  ELSE getToken(S, t)

\* window.location.href = '/login': the page is loaded anew; what was
\* pending is gone and the slice starts from storage.
CustReload(S) ==
  [S EXCEPT !.cust.auth = CustAuth(S.cust.ls),
            !.cust.reqs = [u \in DOMAIN @ |->
                             IF @[u].phase \in {"free", "ok", "err"} THEN @[u]
                             ELSE [@[u] EXCEPT !.phase = "err", !.note = "unloaded"]]]

\* originalRequest._retry, lines 70 and 90
CustRetried(r) == r.retry

\* Response interceptor of the customer client, lines 64-122.
CustRespond(S0, t, s) ==
  LET r == [S0.cust.reqs[t] EXCEPT !.r403 = IF s = "403" THEN @ + 1 ELSE @,
                                   !.r401 = IF s = "401" THEN @ + 1 ELSE @]
      S == [S0 EXCEPT !.cust.reqs[t] = r]
  IN  IF s = "200" THEN [S EXCEPT !.cust.reqs[t].phase = "ok"]
      ELSE IF s = "403" /\ ~CustRetried(r)
        \* lines 70-77
        THEN LET S1 == [S EXCEPT !.cust.reqs[t].retry = TRUE, !.cust.reqs[t].n403 = @ + 1]
             IN  IF NeedsFetch(S1)
                   THEN [S1 EXCEPT !.cust.reqs[t].phase = "recover403", !.cust.gets = @ + 1]
                   ELSE CustSend([S1 EXCEPT !.cust.reqs[t].xcsrf = getCSRFToken(S1)], t)
      ELSE IF s = "401" /\ ~CustRetried(r)
        \* lines 90-107
        THEN LET S1 == [S EXCEPT !.cust.reqs[t].retry = TRUE]
             IN  IF S.cust.ls.refresh_token # 0
                   THEN [S1 EXCEPT !.cust.reqs[t].phase = "refresh"]
                   ELSE [S1 EXCEPT !.cust.reqs[t].phase = "err",
                                   !.cust.reqs[t].note = "norefresh"]
      \* line 120
      ELSE [S EXCEPT !.cust.reqs[t].phase = "err"]

\* The answer to axios.post('/auth/token/refresh/') arrives, lines 100-118.
CustRefreshArrives(S, t, s) ==
  IF s = "200"
    THEN CustSend([S EXCEPT !.cust.ls.access_token = NewAccess,
                            !.cust.reqs[t].n401 = @ + 1], t)
    ELSE CustReload([S EXCEPT !.cust.ls = [access_token |-> 0, refresh_token |-> 0, user |-> 0],
                              !.cust.reqs[t].phase = "err",
                              !.cust.reqs[t].note = "refreshfail"])

\* ------------------------------------------------------------------ actions
\* Bodies of a 200 answer of a login endpoint other than tokens with a verified
\* user: tokens with a user that is not verified, { requires_2fa: true } alone,
\* and { requires_2fa: true } with the user
Bodies == {"200u", "200n", "2fa", "2fau"}

Answers == {"200", "401", "403", "500", "nobody", "nocookie", "400"} \cup Bodies

InitTasks == [t \in Tasks |-> FreeTask]

InitAuth(l) ==
  [user |-> 0, owner |-> 0, token |-> l.token, refreshToken |-> l.refreshToken,
   isAuthenticated |-> l.token # 0, isOwner |-> FALSE, requires2FA |-> FALSE,
   tempLoginData |-> 0, loading |-> FALSE, csrfInitialized |-> FALSE,
   loginError |-> FALSE, requiresVerification |-> FALSE,
   verificationError |-> FALSE, csrfError |-> 0]

InitOwnerAuth == [owner |-> 0, loading |-> FALSE]

InitGh == [csrfGets |-> 0, csrfSettled |-> 0, ended |-> "none", loggedOut |-> FALSE,
           unhandled |-> "none", logouts |-> 0, headers |-> 0, fetches |-> 0,
           running |-> 0,
           overlap |-> FALSE, ops |-> 0,
           did |-> [op |-> "none", out |-> "none", arg |-> 0],
           rec |-> [body |-> "none", user |-> 0, at |-> 0],
           loc |-> [path |-> <<>>, from |-> "", seen |-> {}, loop |-> FALSE],
           nav |-> [route |-> "none", d |-> "none", n |-> 0]]

\* Storage as a previous visit left it: logged out, or logged in with both
\* tokens; a CSRF token may be left over.
InitStorage ==
  {[token |-> a, refreshToken |-> a, csrfToken |-> c,
    pendingVerificationEmail |-> 0, pendingUserType |-> 0] :
     a \in {0, OldAccess}, c \in {0, LeftoverCsrf}}

\* The customer tab: logged out or logged in, with or without a csrftoken cookie.
CustWith(a, c) ==
  [reqs |-> [t \in Reqs |-> FreeReq],
   ls |-> [access_token |-> a, refresh_token |-> a, user |-> a],
   cookie |-> c,
   auth |-> CustAuth([access_token |-> a, refresh_token |-> a, user |-> a]),
   gets |-> 0]

InitCust == {CustWith(a, c) : a \in {0, OldAccess}, c \in {0, LeftoverCsrf}}

InitWith(nreq, m403, mfail, answers) ==
  /\ app \in {"owner", "customer"}
  /\ cust \in IF app = "customer" THEN InitCust ELSE {CustWith(0, 0)}
  /\ tasks = InitTasks
  /\ ls \in IF app = "owner" THEN InitStorage
             ELSE {[token |-> 0, refreshToken |-> 0, csrfToken |-> 0,
                    pendingVerificationEmail |-> 0, pendingUserType |-> 0]}
  /\ csrfToken = ls.csrfToken
  /\ isInitialized = FALSE
  /\ initializationPromise = 0
  /\ initializationCount = 0
  /\ auth = InitAuth(ls)
  /\ ownerAuth = InitOwnerAuth
  /\ srv = [nreq |-> nreq, n403 |-> 0, nfail |-> 0, m403 |-> m403, mfail |-> mfail,
            answers |-> answers]
  /\ gh = InitGh

Init == InitWith(MaxReq, MaxFail, MaxFail, Answers)

\* The UI issues a state-changing request through api.
Issue(t) ==
  /\ app = "owner"
  /\ t \in 1..srv.nreq
  /\ tasks[t].phase = "free"
  /\ \A u \in 1..(t - 1) : tasks[u].phase # "free"
  /\ Apply(SendTop([St EXCEPT !.tasks[t] = [FreeTask EXCEPT !.op = "data",
                                   !.stack = <<NewConfig("data")>>]], t))

\* authSlice.js lines 7-30: dispatch(initializeCSRF()).
DispatchInitializeCSRF(w) ==
  /\ app = "owner"
  /\ w \in Inits
  /\ tasks[w].phase = "free"
  /\ \A u \in Inits : u < w => tasks[u].phase # "free"
  \* the pending reducer (lines 371-374) resets csrfError
  /\ LET S == [St EXCEPT !.tasks[w] = [FreeTask EXCEPT !.op = "init"],
                         !.auth.csrfError = 0]
     IN  IF auth.csrfInitialized
           THEN Apply(SettleOther(S, w, "ok", "SKIP", "none"))
           ELSE Apply(InitializeApp(S, w))

\* The server issues a fresh CSRF token with every successful GET /auth/csrf/.
FreshCsrf(S) == LeftoverCsrf + S.gh.csrfGets

\* The server may give answer s to t's request.  "nobody" is a 200 answer to
\* GET /auth/csrf/ whose body carries no csrfToken.
ServerMay(t, s) ==
  /\ s \in srv.answers \ {"nocookie"}
  /\ s \notin {"200"} \cup Bodies => srv.nfail < srv.mfail
  /\ s = "403" => srv.n403 < srv.m403
  /\ s = "nobody" => isCSRFRequest(Top(tasks[t]))
  /\ s \in Bodies => /\ Len(tasks[t].stack) = 1
                     /\ \/ tasks[t].op \in {"ownerLogin", "socialLogin"}
                        \/ tasks[t].op = "me" /\ s \in {"200u", "200n"}
  /\ s = "400" => tasks[t].op \in AuthOps /\ Len(tasks[t].stack) = 1

Served(S, s) ==
  [S EXCEPT !.srv.n403 = IF s = "403" THEN @ + 1 ELSE @,
            !.srv.nfail = IF s \notin {"200", "nocookie"} \cup Bodies THEN @ + 1 ELSE @]

\* A response arrives from the network.
ServerAnswer(t, s) ==
  /\ tasks[t].phase = "inflight"
  /\ ServerMay(t, s)
  /\ Apply(IF s = "nobody" THEN Respond(Served(St, s), t, "200", 0)
           ELSE IF s \in Bodies THEN SettleOther(Served(St, s), t, "ok", s, "none")
           ELSE Respond(Served(St, s), t, s, FreshCsrf(St)))

\* The customer UI issues a state-changing request through api.
CustIssue(t) ==
  /\ app = "customer"
  /\ t \in 1..srv.nreq
  /\ cust.reqs[t].phase = "free"
  /\ \A u \in 1..(t - 1) : cust.reqs[u].phase # "free"
  /\ Apply(CustSend(St, t))

\* The customer authService makes sure of a CSRF token before a call
\* (part_010 lines 27, 51, 62).
CustEnsureToken(t) ==
  /\ app = "customer"
  /\ t \in 1..srv.nreq
  /\ cust.reqs[t].phase = "free"
  /\ \A u \in 1..(t - 1) : cust.reqs[u].phase # "free"
  /\ Apply(ensureToken(St, t))

\* The server hands out the session's CSRF token; it stays the same from
\* one GET /auth/csrf/ to the next.
CustFreshCsrf(S) == LeftoverCsrf

\* A 200 answer to the GET /auth/csrf/ that went through api sets the cookie.
CookieSet(S, t, s) ==
  IF s = "200" /\ S.cust.reqs[t].csrfget
    THEN [S EXCEPT !.cust.cookie = CustFreshCsrf(S)] ELSE S

\* A response arrives in the customer tab.  "nocookie" is a 200 answer to
\* GET /auth/csrf/ that leaves no csrftoken cookie script can read.
CustServerAnswer(t, s) ==
  /\ app = "customer"
  /\ s \in srv.answers
  /\ s \notin {"200", "nocookie"} => srv.nfail < srv.mfail
  /\ s = "403" => srv.n403 < srv.m403
  /\ LET ph == cust.reqs[t].phase
         S == Served(St, s)
     IN  \/ /\ ph = "inflight"
            /\ s \in {"200", "401", "403", "500"}
            /\ Apply(CustRespond(CookieSet(S, t, s), t, s))
         \/ /\ ph \in {"ensure", "recover403"}
            /\ s \in {"200", "nocookie", "500"}
            /\ Apply(CustCsrfArrives(S, t, IF s = "500" THEN 0 ELSE CustFreshCsrf(St),
                                     IF s = "200" THEN CustFreshCsrf(St) ELSE cust.cookie))
         \/ /\ ph = "refresh"
            /\ s \in {"200", "401"}
            /\ Apply(CustRefreshArrives(S, t, s))

Next ==
  \/ \E t \in Reqs : CustIssue(t)
  \/ \E t \in Reqs, s \in Answers : CustServerAnswer(t, s)
  \/ \E t \in Reqs : Issue(t)
  \/ \E w \in Inits : DispatchInitializeCSRF(w)
  \/ \E t \in Tasks, s \in Answers : ServerAnswer(t, s)

Spec == Init /\ [][Next]_vars

\* The customer front-end alone, its authService making sure of a CSRF token
\* (csrfService) besides the requests of its pages.
InitCustomer == Init /\ app = "customer"

NextCustomer ==
  \/ \E t \in Reqs : CustIssue(t)
  \/ \E t \in Reqs : CustEnsureToken(t)
  \/ \E t \in Reqs, s \in Answers : CustServerAnswer(t, s)

SpecCustomer == InitCustomer /\ [][NextCustomer]_vars

\* The stampede scenario: five requests, a server whose only failure is 403.
InitStampede ==
  InitWith(StampedeReq, Stampede403, Stampede403, {"200", "403", "nocookie"})

NextStampede ==
  \/ \E t \in Reqs : CustIssue(t)
  \/ \E t \in Reqs, s \in Answers : CustServerAnswer(t, s)
  \/ \E t \in Reqs : Issue(t)
  \/ \E t \in Tasks, s \in Answers : ServerAnswer(t, s)

SpecStampede == InitStampede /\ [][NextStampede]_vars

\* ------------------------------------------------ the session scenario
\* The owner is logged in; the panel loads the profile and the user logs out.
InitSession ==
  /\ app = "owner"
  /\ cust = CustWith(0, 0)
  /\ tasks = InitTasks
  /\ ls \in {l \in InitStorage : l.token # 0}
  /\ csrfToken = ls.csrfToken
  /\ isInitialized = FALSE
  /\ initializationPromise = 0
  /\ initializationCount = 0
  /\ auth = InitAuth(ls)
  /\ ownerAuth = InitOwnerAuth
  /\ srv = [nreq |-> 0, n403 |-> 0, nfail |-> 0, m403 |-> SessFail, mfail |-> SessFail,
            answers |-> {"200", "401", "403", "500"}]
  /\ gh = InitGh

Fetching(S) == [S EXCEPT !.gh.fetches = @ + 1, !.gh.loggedOut = FALSE]

\* dispatch(loadUserFromToken()), authSlice.js lines 83-114 and 448-450
DispatchLoadUser ==
  /\ gh.fetches < MaxFetch
  /\ LET S == [Fetching(St) EXCEPT !.auth.loading = TRUE]
     IN  IF ls.token = 0
           THEN Apply([LoadUserRejected(S) EXCEPT
                         !.gh.did = [op |-> "me", out |-> "ENOTOKEN", arg |-> 0]])
         ELSE Apply(StartCall(S, "me", "get", "ui"))

\* dispatch(fetchOwnerProfile()), ownerAuthSlice lines 5-21 and 47-49
DispatchFetchProfile ==
  /\ gh.fetches < MaxFetch
  /\ Cardinality(FreeSlots(St)) >= 2
  /\ LET S == [Fetching(St) EXCEPT !.ownerAuth.loading = TRUE]
         a == Slot(S)
         S1 == StartCall(S, "profile", "get", "ui")
         b == Slot(S1)
         S2 == StartCall(S1, "profile", "get", "ui")
     IN  Apply([S2 EXCEPT !.tasks[a].peer = b, !.tasks[b].peer = a])

LoggingOut(S) ==
  [S EXCEPT !.gh.logouts = @ + 1, !.gh.running = @ + 1,
            !.gh.overlap = @ \/ S.gh.running > 0]

\* dispatch(logout()), authSlice.js lines 231-243
DispatchLogout ==
  /\ gh.logouts + gh.headers < MaxLogout
  /\ Apply(logout(LoggingOut(St), "ui"))

\* dispatch(performLogout()), logoutActions.js lines 5-15
PerformLogout ==
  /\ gh.logouts + gh.headers < MaxLogout
  /\ Apply(logout(LoggingOut(St), "perform"))

\* OwnerHeader.jsx lines 53-66: authService is not in scope there, so line 56
\* throws a ReferenceError and the catch branch runs.
HandleLogout ==
  /\ gh.logouts + gh.headers < MaxLogout
  /\ Apply(logoutOwner([St EXCEPT !.gh.headers = @ + 1], "header"))

NextSession ==
  \/ DispatchLoadUser
  \/ DispatchFetchProfile
  \/ DispatchLogout
  \/ PerformLogout
  \/ HandleLogout
  \/ \E t \in Tasks, s \in Answers : ServerAnswer(t, s)

SpecSession == InitSession /\ [][NextSession]_vars

\* ------------------------------------------- the authentication scenario
\* A visitor of either front-end; the owner front-end's visitor logs in,
\* registers, verifies and logs out.
InitAuthFlow == InitWith(AuthReq, AuthFail, AuthFail, {"200", "400", "500"} \cup Bodies)

Operating(S) == [S EXCEPT !.gh.ops = @ + 1]

\* OwnerLogin.jsx handleSubmit, lines 110-123, and ownerLogin.pending
\* (authSlice.js lines 386-389); e = 0 is a form with a blank field.
DispatchOwnerLogin(e) ==
  /\ app = "owner"
  /\ gh.ops < MaxOps
  /\ IF e = 0 THEN Apply([clearError(Operating(St)) EXCEPT !.auth.loginError = TRUE])
     ELSE Apply(StartAuth(clearError(Operating(St)), "ownerLogin", e))

\* OwnerRegister.jsx handleSubmit, lines 126-159, and ownerRegister.pending
\* (authSlice.js lines 434-437)
DispatchOwnerRegister(e) ==
  /\ app = "owner"
  /\ gh.ops < MaxOps
  /\ Apply(StartAuth(clearError(Operating(St)), "ownerRegister", e))

\* EmailVerification.jsx handleSubmit, lines 65-87, with the e-mail address and
\* the user type the page took from storage (lines 28-38), and the pending
\* reducers (authSlice.js lines 487-490, 531-534)
DispatchVerifyCode(valid) ==
  /\ app = "owner"
  /\ gh.ops < MaxOps
  /\ IF ~valid THEN Apply([clearError(Operating(St)) EXCEPT !.auth.loginError = TRUE])
     ELSE Apply(StartAuth(clearError(Operating(St)),
                          IF ls.pendingUserType = OwnerType THEN "ownerVerifyCode"
                          ELSE "verifyEmailCode",
                          ls.pendingVerificationEmail))

\* TwoFactorAuth.jsx handleSubmit, lines 17-31, and verify2FACode.pending
\* (authSlice.js lines 545-548)
DispatchVerify2FA(valid) ==
  /\ app = "owner"
  /\ gh.ops < MaxOps
  /\ IF ~valid THEN Apply([clearError(Operating(St)) EXCEPT !.auth.loginError = TRUE])
     ELSE Apply(StartAuth(clearError(Operating(St)), "verify2FACode", auth.tempLoginData))

\* OwnerLogin.jsx handleGoogleSuccess (lines 31-43) and handleFacebookLogin
\* (lines 70-85) dispatch socialLogin({provider, token}); the thunk
\* (authSlice.js lines 187-210) accepts any provider.
DispatchSocialLogin(provider) ==
  /\ app = "owner"
  /\ gh.ops < MaxOps
  /\ Apply(socialLogin(clearError(Operating(St)), provider))

\* OwnerFooter.jsx handleNewRegistration, lines 180-185
NewRegistration ==
  /\ app = "owner"
  /\ gh.ops < MaxOps
  /\ Apply([RemoveMarker(Operating(St)) EXCEPT !.gh.did.op = "newRegistration"])

\* dispatch(logout()), authSlice.js lines 231-243, from the owner panel
FlowLogout ==
  /\ app = "owner"
  /\ gh.ops < MaxOps
  /\ Apply(logout(LoggingOut(Operating(St)), "ui"))

\* The page is loaded again: the modules are evaluated afresh (part_008 lines
\* 15-19, authSlice.js initialState lines 246-288) and what the old page
\* awaited is gone.
Restart(S) ==
  [S EXCEPT !.tasks = InitTasks, !.csrfToken = S.ls.csrfToken, !.isInitialized = FALSE,
            !.initializationPromise = 0, !.initializationCount = 0,
            !.auth = InitAuth(S.ls), !.ownerAuth = InitOwnerAuth]

\* App.jsx lines 205-210: loadUserFromToken is dispatched when the app
\* mounts, only there, and only with a token in storage.
FlowLoadUser ==
  /\ app = "owner"
  /\ gh.ops < MaxOps
  /\ ls.token # 0
  /\ Apply(StartCall([Restart(Operating(St)) EXCEPT !.auth.loading = TRUE], "me", "get", "ui"))

NextAuthFlow ==
  \/ \E e \in 0..MaxEmail : DispatchOwnerLogin(e)
  \/ \E e \in Emails : DispatchOwnerRegister(e)
  \/ \E valid \in BOOLEAN : DispatchVerifyCode(valid)
  \/ \E valid \in BOOLEAN : DispatchVerify2FA(valid)
  \/ \E provider \in Providers : DispatchSocialLogin(provider)
  \/ NewRegistration
  \/ FlowLogout
  \/ FlowLoadUser
  \/ \E t \in Tasks, s \in Answers : ServerAnswer(t, s)
  \/ \E t \in Reqs : CustIssue(t)
  \/ \E t \in Reqs, s \in Answers : CustServerAnswer(t, s)

SpecAuthFlow == InitAuthFlow /\ [][NextAuthFlow]_vars

\* ------------------------------------------------------- route guards
\* A pathname is the sequence of its segments: /owner/menu/items is
\* <<"owner", "menu", "items">>.  The segments of the route table are whole
\* words, none a prefix of another, so pathname.includes('/x') is "x is a
\* segment".
Includes(path, seg) == \E i \in 1..Len(path) : path[i] = seg

\* The pages under <Route path="/owner">, App.jsx (src/unnamed/part_009)
\* lines 271-321; the empty path is the index route of line 319.
OwnerPages ==
  {<<>>, <<"dashboard">>, <<"orders">>}
    \cup {<<"menu", x>> : x \in {"builder", "categories", "items", "modifiers"}}
    \cup {<<"analytics", x>> : x \in {"sales", "customers", "menu", "reports"}}
    \cup {<<"staff", x>> : x \in {"team", "roles", "schedules"}}
    \cup {<<"settings", x>> : x \in {"basic", "branches", "hours", "integrations"}}
    \cup {<<"marketing", x>> : x \in {"offers", "loyalty", "communications"}}

\* The pathnames at which the router mounts ProtectedRoute.
ProtectedPaths == {<<"owner">> \o page : page \in OwnerPages}

\* <ProtectedRoute ownerOnly>, App.jsx line 274, with the defaults of
\* ProtectedRoute.jsx lines 9-11
OwnerRouteProps == [ownerOnly |-> TRUE, requireEmailVerified |-> TRUE,
                    allowUnverified |-> FALSE, requiredPermission |-> "none",
                    restaurantId |-> 0]

\* <Navigate to=... state={{ from: location }}>: from tells whether the
\* requested location is remembered.
NavigateTo(to, from) == [kind |-> "navigate", to |-> to, from |-> from]

Rendered(kind) == [kind |-> kind, to |-> "", from |-> FALSE]

has_staff_profile(u) == u \in {StaffManager, StaffCashier, UnverifiedStaff}

staff_profile(u) ==
  IF u = StaffCashier
    THEN [restaurant_id |-> 2, role |-> "cashier", can_view_reports |-> FALSE,
          can_manage_menu |-> FALSE, can_manage_orders |-> TRUE,
          can_manage_staff |-> FALSE]
    ELSE [restaurant_id |-> 1, role |-> "manager", can_view_reports |-> TRUE,
          can_manage_menu |-> TRUE, can_manage_orders |-> TRUE,
          can_manage_staff |-> FALSE]

\* (variant) the restaurant of the staff member is not compared
hasPermissionAnyRestaurant(user, permission, restaurantId) ==
  user # 0 /\ (user_type(user) = "owner"
                \/ (user_type(user) = "staff" /\ has_staff_profile(user)
                    /\ permission \in {"view_reports", "access_kitchen"}))

\* permissions.js lines 10-52; user 0 is null, restaurantId 0 is null
hasPermission(user, permission, restaurantId) ==
  IF user = 0 THEN FALSE
  ELSE IF user_type(user) = "owner" THEN TRUE
  ELSE IF user_type(user) = "staff" /\ has_staff_profile(user)
    THEN LET staff == staff_profile(user)
         IN  IF restaurantId # 0 /\ staff.restaurant_id # restaurantId THEN FALSE
             ELSE CASE permission = "view_reports" -> staff.can_view_reports
                    [] permission = "manage_menu" -> staff.can_manage_menu
                    [] permission = "manage_orders" -> staff.can_manage_orders
                    [] permission = "manage_staff" -> staff.can_manage_staff
                    [] permission = "access_kitchen" -> staff.role \in {"chef", "manager"}
                    [] permission = "process_payments" -> staff.role \in {"cashier", "manager"}
                    [] OTHER -> FALSE
  ELSE FALSE

\* (variant) the guard does not look at the pending-verification marker
hasPendingVerificationNever(l) == FALSE

\* ProtectedRoute.jsx line 29
hasPendingVerification(l) == l.pendingVerificationEmail # 0

\* ProtectedRoute.jsx lines 6-78 (owner front-end): what the guard renders for
\* session state a, storage l and pathname path.  requiredPermission "none" is
\* a route without the prop.
ProtectedRoute(a, l, path, props) ==
  LET verified == a.user # 0 /\ email_verified(a.user)
      allowedWithoutVerification ==
        \E seg \in {"verify-email", "logout", "settings"} : Includes(path, seg)
  IN  IF a.loading THEN Rendered("spinner")
      ELSE IF a.isAuthenticated /\ verified /\ path = <<"login">>
        THEN NavigateTo("/owner/dashboard", FALSE)
      ELSE IF ~a.isAuthenticated /\ ~hasPendingVerification(l)
        THEN NavigateTo("/login", TRUE)
      ELSE IF ~a.isAuthenticated /\ hasPendingVerification(l)
                /\ ~Includes(path, "verify-email")
        THEN NavigateTo("/verify-email", FALSE)
      ELSE IF a.isAuthenticated /\ props.requireEmailVerified /\ ~verified
                /\ ~allowedWithoutVerification /\ ~props.allowUnverified
        THEN NavigateTo("/verify-email", TRUE)
      \* line 68 reads user.user_type: a TypeError when user is null
      ELSE IF a.isAuthenticated /\ props.ownerOnly /\ a.user = 0
        THEN Rendered("throws")
      ELSE IF a.isAuthenticated /\ props.ownerOnly /\ user_type(a.user) # "owner"
        THEN NavigateTo("/unauthorized", FALSE)
      ELSE IF a.isAuthenticated /\ props.requiredPermission # "none"
                /\ ~hasPermission(a.user, props.requiredPermission, props.restaurantId)
        THEN NavigateTo("/unauthorized", FALSE)
      ELSE Rendered("children")

\* PublicRoute (src/unnamed/part_004 lines 75-115).  props.redirectTo "" is
\* the default null; from is location.state?.from?.pathname, "" when absent.
\* A user that is neither owner nor staff has no redirect path: the target
\* is undefined.
getRedirectPath(a, props) ==
  IF props.redirectTo # "" THEN props.redirectTo
  ELSE IF a.user # 0 /\ user_type(a.user) = "owner" THEN "/owner/dashboard"
  ELSE IF a.user # 0 /\ user_type(a.user) = "staff" THEN "/staff/dashboard"
  ELSE "undefined"

PublicRoute(a, l, path, props, from) ==
  IF props.restricted /\ a.isAuthenticated
    THEN NavigateTo(IF from # "" THEN from ELSE getRedirectPath(a, props), FALSE)
  ELSE IF props.restricted /\ hasPendingVerification(l) /\ ~Includes(path, "verify-email")
    THEN NavigateTo("/verify-email", FALSE)
  ELSE IF props.restricted /\ a.isAuthenticated
            /\ ~(a.user # 0 /\ email_verified(a.user)) /\ path # <<"verify-email">>
    THEN NavigateTo("/verify-email", FALSE)
  ELSE Rendered("children")

\* VerifyEmailRoute.jsx lines 6-55
VerifyEmailRoute(a, l) ==
  LET isVerified == a.user # 0 /\ email_verified(a.user)
  IN  IF a.loading THEN Rendered("spinner")
      ELSE IF hasPendingVerification(l) \/ (a.isAuthenticated /\ a.user # 0 /\ ~isVerified)
        THEN Rendered("children")
      ELSE IF a.isAuthenticated /\ a.user # 0 /\ isVerified
        THEN NavigateTo("/owner/dashboard", FALSE)
      ELSE NavigateTo("/login", FALSE)

\* The customer front-end's ProtectedRoute (LoadMoreButton.jsx lines 23-36)
CustProtectedRoute(a, requireAuth) ==
  IF requireAuth /\ ~a.isAuthenticated THEN NavigateTo("/login", TRUE)
  ELSE IF ~requireAuth /\ a.isAuthenticated THEN NavigateTo("/", FALSE)
  ELSE Rendered("children")

\* <PublicRoute restricted redirectTo='/owner/dashboard'>, App.jsx lines 245
\* and 250, mounted at /register and /login
LoginRouteProps == [restricted |-> TRUE, redirectTo |-> "/owner/dashboard"]

RestrictedPaths == {<<"login">>, <<"register">>}

\* location.state?.from?.pathname as ProtectedRoute leaves it, or absent
Froms == {"", "/owner/orders"}

\* ------------------------------------------------ the guard scenario
\* A session snapshot is given and the router evaluates guards on it.
\* The props of a guarded route: those of ProtectedRoute (ProtectedRoute.jsx
\* lines 6-12) and those of PublicRoute (part_004 lines 75-79).
ProtectedProps ==
  [ownerOnly : BOOLEAN, requireEmailVerified : BOOLEAN, allowUnverified : BOOLEAN,
   requiredPermission : {"none", "access_kitchen", "unknown"},
   restaurantId : {0, 1}, restricted : {FALSE}, redirectTo : {""}]

PublicProps(restricted, redirectTo) ==
  [ownerOnly |-> FALSE, requireEmailVerified |-> TRUE, allowUnverified |-> FALSE,
   requiredPermission |-> "none", restaurantId |-> 0,
   restricted |-> restricted, redirectTo |-> redirectTo]

\* The guarded routes: ProtectedRoute with any props over a page that is not
\* exempt from verification and one that is, and the public routes of App.jsx
\* lines 243-268.
GuardRoutes ==
  [guard : {"protected"}, path : {<<"owner", "dashboard">>, <<"owner", "settings", "basic">>},
   props : ProtectedProps, from : {""}]
    \cup [guard : {"public"}, path : RestrictedPaths,
          props : {PublicProps(TRUE, "/owner/dashboard")}, from : Froms]
    \cup [guard : {"public", "verify"}, path : {<<"verify-email">>},
          props : {PublicProps(TRUE, "")}, from : Froms]
    \cup [guard : {"public"}, path : {<<"2fa">>},
          props : {PublicProps(FALSE, "")}, from : Froms]

\* What the guard of route r renders in state S.
Decide(S, r) ==
  CASE r.guard = "protected" -> ProtectedRoute(S.auth, S.ls, r.path, r.props)
    [] r.guard = "public" -> PublicRoute(S.auth, S.ls, r.path, r.props, r.from)
    [] OTHER -> VerifyEmailRoute(S.auth, S.ls)

\* (variant) rendering a guard uses up the pending-verification marker
RenderedGuardConsumesMarker(S, r) ==
  [S EXCEPT !.gh.nav = [route |-> r, d |-> Decide(S, r), n |-> S.gh.nav.n + 1],
            !.ls.pendingVerificationEmail = 0]

\* The body of a guard component has run for route r: it reads the store and
\* storage and returns an element.
RenderedGuard(S, r) ==
  [S EXCEPT !.gh.nav = [route |-> r, d |-> Decide(S, r), n |-> S.gh.nav.n + 1]]

\* The user objects a session may hold; 0 is null.
Users == {UserData, UnverifiedUser, StaffManager, StaffCashier, StaffNoProfile,
          CustomerUser, UnverifiedStaff}

InitGuard ==
  /\ app = "owner"
  /\ cust = CustWith(0, 0)
  /\ tasks = InitTasks
  /\ ls \in {[token |-> a, refreshToken |-> a, csrfToken |-> LeftoverCsrf,
              pendingVerificationEmail |-> e,
              pendingUserType |-> IF e = 0 THEN 0 ELSE OwnerType] :
               a \in {0, OldAccess}, e \in 0..MaxEmail}
  /\ csrfToken = ls.csrfToken
  /\ isInitialized = TRUE
  /\ initializationPromise = 0
  /\ initializationCount = 0
  /\ auth \in {[InitAuth(ls) EXCEPT !.loading = l, !.user = u, !.owner = u,
                                   !.isOwner = u # 0 /\ user_type(u) = "owner",
                                   !.csrfInitialized = TRUE] :
                 l \in BOOLEAN,
                 u \in IF ls.token = 0 THEN {0} ELSE Users \cup {0}}
  /\ ownerAuth = InitOwnerAuth
  /\ srv = [nreq |-> 0, n403 |-> 0, nfail |-> 0, m403 |-> 0, mfail |-> 0,
            answers |-> {}]
  /\ gh = InitGh

\* The router renders the guard of route r.
Render(r) ==
  /\ gh.nav.n < MaxRender
  /\ Apply(RenderedGuard(St, r))

NextGuard == \E r \in GuardRoutes : Render(r)

SpecGuard == InitGuard /\ [][NextGuard]_vars

\* ------------------------------------------------- following the redirects
\* The session is fixed and the router follows what the elements of App.jsx
\* (lines 240-331) and AutoRedirectHandler render, from some start path.

\* The pathnames of the scenario and their hrefs.
Hrefs ==
  {<<"/", <<>> >>, <<"/login", <<"login">> >>, <<"/register", <<"register">> >>,
   <<"/verify-email", <<"verify-email">> >>, <<"/2fa", <<"2fa">> >>,
   <<"/owner", <<"owner">> >>, <<"/owner/dashboard", <<"owner", "dashboard">> >>,
   <<"/owner/orders", <<"owner", "orders">> >>,
   <<"/owner/settings/basic", <<"owner", "settings", "basic">> >>,
   <<"/staff/dashboard", <<"staff", "dashboard">> >>,
   <<"/unauthorized", <<"unauthorized">> >>}

PathOf(href) == (CHOOSE h \in Hrefs : h[1] = href)[2]

Href(path) == (CHOOSE h \in Hrefs : h[2] = path)[1]

StartPaths == {h[2] : h \in Hrefs} \ {<<"staff", "dashboard">>, <<"unauthorized">>}

\* DashboardRoute, App.jsx lines 124-145
DashboardRoute(a) ==
  IF a.user = 0 THEN Rendered("spinner")
  ELSE IF email_verified(a.user) THEN Rendered("children")
  ELSE NavigateTo("/verify-email", FALSE)

\* The element of the route that matches path (App.jsx lines 243-324), down
\* to the first component that navigates.
RouteElement(a, l, path, from) ==
  CASE path \in RestrictedPaths -> PublicRoute(a, l, path, LoginRouteProps, from)
    [] path = <<"verify-email">> ->
         LET p == PublicRoute(a, l, path, PublicProps(TRUE, ""), from)
         IN  IF p.kind = "children" THEN VerifyEmailRoute(a, l) ELSE p
    [] path = <<"2fa">> -> PublicRoute(a, l, path, PublicProps(FALSE, ""), from)
    [] path # <<>> /\ path[1] = "owner" ->
         LET p == ProtectedRoute(a, l, path, OwnerRouteProps)
         IN  IF p.kind # "children" THEN p
             ELSE IF path = <<"owner">> THEN NavigateTo("/owner/dashboard", FALSE)
             ELSE IF path = <<"owner", "dashboard">> THEN DashboardRoute(a)
             ELSE p
    [] path = <<>> -> NavigateTo("/login", FALSE)
    [] OTHER -> Rendered("notfound")

\* The effect of AutoRedirectHandler (App.jsx lines 65-111) once the initial
\* check is complete.
AutoRedirectHandler(a, l, path) ==
  LET verified == a.user # 0 /\ email_verified(a.user)
  IN  IF a.loading THEN Rendered("none")
      ELSE IF a.isAuthenticated /\ verified /\ path \in {<<"login">>, <<"verify-email">>}
        THEN NavigateTo("/owner/dashboard", FALSE)
      ELSE IF a.requires2FA /\ ~Includes(path, "2fa") THEN NavigateTo("/2fa", FALSE)
      ELSE IF ~a.isAuthenticated /\ hasPendingVerification(l) /\ ~Includes(path, "verify-email")
        THEN NavigateTo("/verify-email", FALSE)
      ELSE IF a.isAuthenticated /\ a.user # 0 /\ ~verified /\ Includes(path, "owner")
        THEN NavigateTo("/verify-email", FALSE)
      ELSE Rendered("none")

\* The location a <Navigate> or navigate() issued at location loc leads to.
Target(loc, d) == [path |-> PathOf(d.to), from |-> IF d.from THEN Href(loc.path) ELSE ""]

\* The redirects issued at the present location: by the route element and by
\* the handler's effect; when both navigate, either may be the one that counts.
Redirects(S) ==
  LET loc == [path |-> S.gh.loc.path, from |-> S.gh.loc.from]
      e == RouteElement(S.auth, S.ls, loc.path, loc.from)
      h == AutoRedirectHandler(S.auth, S.ls, loc.path)
  IN  {Target(loc, d) : d \in {x \in {e, h} : x.kind = "navigate"}}

\* The router moves to location to; loop records that the run has been there.
Followed(S, to) ==
  LET here == [path |-> S.gh.loc.path, from |-> S.gh.loc.from]
      seen == S.gh.loc.seen \cup {here}
  IN  [S EXCEPT !.gh.loc = [path |-> to.path, from |-> to.from, seen |-> seen,
                            loop |-> to \in seen]]

NavUsers == {UserData, UnverifiedUser, StaffManager, UnverifiedStaff}

InitNav ==
  /\ app = "owner"
  /\ cust = CustWith(0, 0)
  /\ tasks = InitTasks
  /\ ls \in {[token |-> a, refreshToken |-> a, csrfToken |-> LeftoverCsrf,
              pendingVerificationEmail |-> e,
              pendingUserType |-> IF e = 0 THEN 0 ELSE OwnerType] :
               a \in {0, OldAccess}, e \in 0..MaxEmail}
  /\ csrfToken = ls.csrfToken
  /\ isInitialized = TRUE
  /\ initializationPromise = 0
  /\ initializationCount = 0
  /\ auth \in {[InitAuth(ls) EXCEPT !.user = u, !.owner = u,
                                   !.isOwner = u # 0 /\ user_type(u) = "owner",
                                   !.requires2FA = r, !.csrfInitialized = TRUE] :
                 r \in BOOLEAN,
                 u \in IF ls.token = 0 THEN {0} ELSE NavUsers}
  /\ ownerAuth = InitOwnerAuth
  /\ srv = [nreq |-> 0, n403 |-> 0, nfail |-> 0, m403 |-> 0, mfail |-> 0,
            answers |-> {}]
  /\ gh \in {[InitGh EXCEPT !.loc.path = p] : p \in StartPaths}

\* The router follows a redirect issued at the present location.
Follow(to) ==
  /\ ~gh.loc.loop
  /\ to \in Redirects(St)
  /\ Apply(Followed(St, to))

NextNav == \E to \in [path : {h[2] : h \in Hrefs}, from : {Href(p) : p \in StartPaths} \cup {""}] :
             Follow(to)

SpecNav == InitNav /\ [][NextNav]_vars

\* ---------------------------------------------------------------- properties
Configs(t) == {tasks[t].stack[i] : i \in 1..Len(tasks[t].stack)}

Used == 1..srv.nreq

\* GET /auth/csrf/ requests on the network
CsrfGetsInFlight ==
  {t \in Tasks : tasks[t].phase = "inflight" /\ isCSRFRequest(Top(tasks[t]))}

\* acquisitions (async bodies of getCSRFToken) that have not settled
ActiveAcquisitions ==
  {t \in Tasks : tasks[t].op = "csrf" /\ tasks[t].phase \in {"inflight", "awaitCsrf"}}

\* C1: at most one GET /auth/csrf/ is in flight in every reachable state; an
\* acquisition is running exactly when initializationPromise is set, and the
\* slot names it, so a new one starts only from an empty slot and the slot is
\* emptied only when the running one has settled.
C1_SingleFlight ==
  /\ Cardinality(CsrfGetsInFlight) <= 1
  /\ Cardinality(ActiveAcquisitions) <= 1
  /\ ActiveAcquisitions = IF initializationPromise = 0 THEN {} ELSE {initializationPromise}

\* A fetch is in flight while a 403 handler (getCSRFToken(true)) and an
\* initializeApp() caller both wait for it.
C1_Witness ==
  /\ Cardinality(CsrfGetsInFlight) = 1
  /\ \E t \in Reqs : tasks[t].phase = "awaitCsrf"
  /\ \E w \in Inits : tasks[w].phase = "awaitCsrf"

\* requests whose response handler has entered CSRF recovery
Handlers403 == {t \in Used : \E f \in Configs(t) : f.cr}

ReqPhase(t) == IF app = "owner" THEN tasks[t].phase ELSE cust.reqs[t].phase

AllSettled == \A t \in Used : ReqPhase(t) \in {"ok", "err"}

\* GET /auth/csrf/ calls made so far by the running front-end
CsrfFetches == gh.csrfGets + cust.gets

\* C3: five requests are fired at once; the server answers 403 exactly once
\* and succeeds otherwise.  While the server has answered 403 at most once and
\* failed in no other way, at most one GET /auth/csrf/ call has been made; and
\* once all five have settled in a run with exactly one 403, exactly one call
\* was made and all five succeeded.
C3_FiveRequests ==
  /\ (srv.n403 <= 1 /\ srv.nfail = srv.n403) => CsrfFetches <= 1
  /\ (AllSettled /\ srv.n403 = 1 /\ srv.nfail = 1) =>
        (CsrfFetches = 1 /\ \A t \in Used : ReqPhase(t) = "ok")

\* C4: no request is resent more than once after a 403 nor more than once
\* after a 401, and a request that received a second 403 or a second 401 has
\* been rejected; in the owner client this holds of every config, in the
\* customer client of every request.
C4_RetryBound ==
  /\ \A t \in Tasks : \A i \in 1..Len(tasks[t].stack) :
       LET f == tasks[t].stack[i]
       IN  /\ f.n403 <= 1
           /\ f.n401 <= 1
           /\ (f.r403 >= 2 \/ f.r401 >= 2) => (i = 1 /\ tasks[t].phase = "err")
  /\ \A t \in Reqs :
       LET r == cust.reqs[t]
       IN  /\ r.n403 <= 1
           /\ r.n401 <= 1
           /\ (r.r403 >= 2 \/ r.r401 >= 2) => r.phase = "err"

\* A request was resent once for each class and rejected at its second 403.
C4_Witness ==
  \E t \in Used : \E f \in Configs(t) :
    f.n403 = 1 /\ f.n401 = 1 /\ f.r403 = 2 /\ tasks[t].phase = "err"

\* C5: recovery of a request makes a bounded number of calls: a refresh call
\* that fails is not itself recovered by a further refresh call.
C5_NoRefreshOfRefresh ==
  \A t \in Tasks : \A i \in 2..Len(tasks[t].stack) :
    tasks[t].stack[i].kind = "refresh" => tasks[t].stack[i - 1].kind # "refresh"

\* C6: a request that ended rejected because its 401 could not be recovered
\* (refresh token missing, or the refresh call failed) leaves no access token
\* and no refresh token in storage and the session unauthenticated.
C6_FailClosed ==
  /\ \A t \in Used :
       (tasks[t].phase = "err" /\ tasks[t].note \in {"refreshfail", "norefresh"}) =>
         (ls.token = 0 /\ ls.refreshToken = 0 /\ ~auth.isAuthenticated)
  /\ \A t \in Used :
       (cust.reqs[t].phase = "err" /\ cust.reqs[t].note \in {"refreshfail", "norefresh"}) =>
         (cust.ls.access_token = 0 /\ cust.ls.refresh_token = 0
          /\ ~cust.auth.isAuthenticated)

LogoutDone == gh.ended \in {"logout", "performLogout", "handleLogout"}

\* C7: whenever a logout entry point has finished (for handleLogout: once the
\* call it started has been answered), whether POST /auth/logout/ succeeded
\* or failed, storage holds neither token and the auth slice has
\* isAuthenticated = false and user = null.
C7_LogoutUnconditional ==
  LogoutDone =>
    (ls.token = 0 /\ ls.refreshToken = 0 /\ ~auth.isAuthenticated /\ auth.user = 0)

\* C8: after logout() has completed, and as long as no new fetch has been
\* dispatched, the session stays logged out whatever late response arrives:
\* isAuthenticated = false, user = null, owner = null.
C8_StaleResponse ==
  gh.loggedOut =>
    (~auth.isAuthenticated /\ auth.user = 0 /\ auth.owner = 0 /\ ownerAuth.owner = 0)

\* C9: after logout has completed, storage holds none of the five keys, also
\* once responses to calls that were in flight at logout time have arrived.
C9_StorageCleared ==
  gh.loggedOut =>
    (ls.token = 0 /\ ls.refreshToken = 0 /\ ls.csrfToken = 0
     /\ ls.pendingVerificationEmail = 0 /\ ls.pendingUserType = 0)

\* C10: logout (the thunk or performLogout) called twice in a row, the second
\* call after the first has returned, leaves no unhandled rejection, and each
\* call ends with isAuthenticated = false and no token in storage.
C10_IdempotentLogout ==
  (gh.logouts = 2 /\ ~gh.overlap) =>
    /\ gh.unhandled # "perform"
    /\ gh.ended \in {"logout", "performLogout"} =>
         (~auth.isAuthenticated /\ ls.token = 0 /\ ls.refreshToken = 0)

\* C11: in every reachable session state, isAuthenticated is true exactly when
\* an access token is present and the user is non-null.
C11_AuthenticatedIffToken ==
  auth.isAuthenticated <=> (auth.token # 0 /\ auth.user # 0)

\* C12: in every reachable session state, requires2FA implies that the session
\* is not authenticated and that the pending login context is kept.
C12_TwoFactorPending ==
  auth.requires2FA => (~auth.isAuthenticated /\ auth.tempLoginData # 0)

\* C13: when the login endpoint answers { requires_2fa: true } without tokens
\* and without a user, the login ends with requires2FA set, the pending login
\* context stored, the session unauthenticated and no login error.
C13_TwoFactorStepOne ==
  (gh.did.op = "ownerLogin" /\ gh.did.out = "2fa")
    => /\ auth.requires2FA
       /\ auth.tempLoginData = gh.did.arg
       /\ ~auth.isAuthenticated
       /\ ~auth.loginError

\* C14: a successful second step of the 2FA round trip, started while the 2FA
\* prompt was up, ends authenticated, with requires2FA false, the pending login
\* context cleared and both tokens in the session state and in storage.
C14_TwoFactorStepTwo ==
  (gh.did.op = "verify2FACode" /\ gh.did.out = "OK" /\ gh.did.arg # 0)
    => /\ auth.isAuthenticated
       /\ ~auth.requires2FA
       /\ auth.tempLoginData = 0
       /\ auth.token # 0 /\ auth.refreshToken # 0
       /\ ls.token # 0 /\ ls.refreshToken # 0

\* The second step succeeded after a first step that asked for a code.
C14_Witness ==
  /\ gh.did.op = "verify2FACode" /\ gh.did.out = "OK" /\ gh.did.arg # 0
  /\ auth.isAuthenticated /\ ~auth.requires2FA /\ ls.token = LoginToken

\* C15: a successful register sets pendingVerificationEmail to the e-mail
\* address of the profile and leaves isAuthenticated, user and both tokens as
\* they were.
C15_RegisterFrame ==
  [][(gh'.did.op = "ownerRegister" /\ gh'.did.out = "OK")
       => /\ ls'.pendingVerificationEmail = gh'.did.arg
          /\ auth'.isAuthenticated = auth.isAuthenticated
          /\ auth'.user = auth.user
          /\ auth'.token = auth.token /\ auth'.refreshToken = auth.refreshToken
          /\ ls'.token = ls.token /\ ls'.refreshToken = ls.refreshToken]_vars

\* A registration with the second address succeeded for a logged-out visitor.
C15_Witness ==
  /\ gh.did.op = "ownerRegister" /\ gh.did.out = "OK" /\ gh.did.arg = MaxEmail
  /\ ls.pendingVerificationEmail = MaxEmail
  /\ ~auth.isAuthenticated /\ auth.user = 0

\* C16: a verification that succeeds, through either thunk the page dispatches,
\* clears the pendingVerificationEmail marker and authenticates the session.
C16_VerifyAuthenticates ==
  (gh.did.op \in {"verifyEmailCode", "ownerVerifyCode"} /\ gh.did.out = "OK")
    => (ls.pendingVerificationEmail = 0 /\ auth.isAuthenticated)

\* C17: a verification that the server rejects for a wrong code leaves both
\* markers in storage as they were, sets the verification error and leaves
\* isAuthenticated, user and the tokens as they were.
C17_VerifyFailureFrame ==
  [][(gh'.did.op \in {"verifyEmailCode", "ownerVerifyCode"} /\ gh'.did.out = "E400")
       => /\ ls'.pendingVerificationEmail = ls.pendingVerificationEmail
          /\ ls'.pendingUserType = ls.pendingUserType
          /\ auth'.verificationError
          /\ auth'.isAuthenticated = auth.isAuthenticated
          /\ auth'.user = auth.user
          /\ auth'.token = auth.token /\ auth'.refreshToken = auth.refreshToken
          /\ ls'.token = ls.token /\ ls'.refreshToken = ls.refreshToken]_vars

\* A wrong code was rejected while a registration was pending.
C17_Witness ==
  /\ gh.did.op = "ownerVerifyCode" /\ gh.did.out = "E400"
  /\ ls.pendingVerificationEmail = gh.did.arg /\ gh.did.arg # 0
  /\ ls.pendingUserType = OwnerType
  /\ auth.verificationError /\ ~auth.isAuthenticated

\* C18: once set, the pendingVerificationEmail marker leaves storage only in
\* a step in which a verification succeeds or a new registration is started.
C18_MarkerRemoval ==
  [][(ls.pendingVerificationEmail # 0 /\ ls'.pendingVerificationEmail = 0)
       => \/ gh'.did.op \in {"verifyEmailCode", "ownerVerifyCode"} /\ gh'.did.out = "OK"
          \/ gh'.did.op = "newRegistration"]_vars

\* C19: while the session is not loading and not authenticated, ProtectedRoute
\* renders its children at no pathname it is mounted at: it redirects to login,
\* remembering the requested location, or to the verification route when a
\* pending-verification marker exists.  The customer guard redirects to login.
C19_GuardUnauthenticated ==
  /\ (~auth.loading /\ ~auth.isAuthenticated)
       => \A path \in ProtectedPaths :
            LET d == ProtectedRoute(auth, ls, path, OwnerRouteProps)
            IN  /\ d.kind = "navigate"
                /\ \/ d.to = "/login" /\ d.from /\ ls.pendingVerificationEmail = 0
                   \/ d.to = "/verify-email" /\ ls.pendingVerificationEmail # 0
  /\ ~cust.auth.isAuthenticated
       => CustProtectedRoute(cust.auth, TRUE) = NavigateTo("/login", TRUE)

\* An unauthenticated visitor with a pending registration asks for the
\* dashboard and is sent to the verification route.
C19_Witness ==
  /\ app = "owner" /\ ~auth.loading /\ ~auth.isAuthenticated
  /\ gh.did.op = "ownerRegister" /\ ls.pendingVerificationEmail # 0
  /\ ProtectedRoute(auth, ls, <<"owner", "dashboard">>, OwnerRouteProps)
       = NavigateTo("/verify-email", FALSE)

\* C20: for an authenticated session whose user is not verified, ProtectedRoute
\* with requireEmailVerified and without allowUnverified redirects to
\* /verify-email at every pathname other than the verification route.
C20_GuardUnverified ==
  (~auth.loading /\ auth.isAuthenticated /\ auth.user # 0 /\ ~email_verified(auth.user))
    => \A path \in ProtectedPaths :
         ~Includes(path, "verify-email")
           => LET d == ProtectedRoute(auth, ls, path, OwnerRouteProps)
              IN  d.kind = "navigate" /\ d.to = "/verify-email"

\* C21: whenever the pendingVerificationEmail marker is in storage and the
\* target is not the verification route, ProtectedRoute and the restricted
\* PublicRoute both redirect to the verification route, whether or not the
\* session is authenticated.
C21_MarkerWins ==
  (hasPendingVerification(ls) /\ ~auth.loading)
    => /\ \A path \in ProtectedPaths :
            ProtectedRoute(auth, ls, path, OwnerRouteProps).to = "/verify-email"
       /\ \A path \in RestrictedPaths, from \in Froms :
            PublicRoute(auth, ls, path, LoginRouteProps, from).to = "/verify-email"

\* The home of an account type.
HomeOf(u) ==
  CASE user_type(u) = "owner" -> "/owner/dashboard"
    [] user_type(u) = "staff" -> "/staff/dashboard"
    [] OTHER -> "/"

Verified == auth.user # 0 /\ email_verified(auth.user)

\* C22: a route restricted to anonymous users, asked for without a remembered
\* location, sends the session to its home only when it is authenticated and
\* verified, the home being that of the account type; an authenticated but
\* unverified session is sent to the verification route.
C22_RestrictedRoute ==
  (gh.nav.n > 0 /\ gh.nav.route.guard = "public" /\ gh.nav.route.props.restricted
     /\ gh.nav.route.from = "")
    => /\ (auth.isAuthenticated /\ Verified)
            => gh.nav.d = NavigateTo(HomeOf(auth.user), FALSE)
       /\ (auth.isAuthenticated /\ ~Verified /\ gh.nav.route.path # <<"verify-email">>)
            => gh.nav.d = NavigateTo("/verify-email", FALSE)
       /\ (gh.nav.d.kind = "navigate" /\ gh.nav.d.to # "/verify-email")
            => (auth.isAuthenticated /\ Verified)

Permissions == {"view_reports", "manage_menu", "manage_orders", "manage_staff",
                "access_kitchen", "process_payments", "unknown"}

\* hasPermission is false for a null user, for an account that is neither
\* owner nor staff with a profile, for staff of another restaurant and for an
\* unknown permission name.
PermissionDenials ==
  \A p \in Permissions, r \in {0, 1, 2} :
    /\ ~hasPermission(0, p, r)
    /\ ~hasPermission(CustomerUser, p, r)
    /\ ~hasPermission(StaffNoProfile, p, r)
    /\ r # 0 /\ r # staff_profile(StaffManager).restaurant_id
         => ~hasPermission(StaffManager, p, r)
    /\ ~hasPermission(StaffManager, "unknown", r)
    /\ ~hasPermission(StaffCashier, "unknown", r)

\* The route of the last evaluation is an owner-only route asked for by an
\* account of another type, or a route whose permission the user lacks.
Denied ==
  /\ gh.nav.n > 0 /\ gh.nav.route.guard = "protected"
  /\ ~auth.loading /\ auth.isAuthenticated /\ auth.user # 0
  /\ \/ gh.nav.route.props.ownerOnly /\ user_type(auth.user) # "owner"
     \/ /\ gh.nav.route.props.requiredPermission # "none"
        /\ ~hasPermission(auth.user, gh.nav.route.props.requiredPermission,
                          gh.nav.route.props.restaurantId)

AcquisitionFails == \E t \in Csrfs : tasks[t].phase # "err" /\ tasks'[t].phase = "err"

\* C25: when a CSRF acquisition fails, for whatever reason, the cached token
\* is cleared from the in-memory cache and from storage and csrfError is set.
C25_FailureClearsToken ==
  [][AcquisitionFails
       => csrfToken' = 0 /\ ls'.csrfToken = 0 /\ auth'.csrfError # 0]_vars

\* The callers that await acquisition t.
Waiters(t) == {w \in Tasks : tasks[w].phase = "awaitCsrf" /\ tasks[w].on = t}

\* Acquisition t settles in this step.
AcquisitionSettles(t) ==
  tasks[t].phase \notin {"free", "ok", "err"} /\ tasks'[t].phase \in {"ok", "err"}

\* C26: when an in-flight CSRF acquisition settles, every caller that awaited
\* it continues with the same outcome: after a failure each of them is
\* rejected, after a success each of them goes on with the one new token; no
\* caller stays waiting.
C26_WaitersShareOutcome ==
  [][\A t \in Csrfs : AcquisitionSettles(t) =>
       \A w \in Waiters(t) :
         /\ tasks'[w].phase # "awaitCsrf"
         /\ tasks'[t].phase = "err"
              => tasks'[w].phase = "err" /\ tasks'[w].res \in {"SEC", "ECSRF", "E401"}
         /\ tasks'[t].phase = "ok"
              => /\ csrfToken' # 0
                 /\ IF tasks[w].stack = <<>>
                      THEN tasks'[w].phase = "ok" /\ tasks'[w].res = "OK"
                      ELSE /\ tasks'[w].phase = "inflight"
                           /\ Top(tasks'[w]).xcsrf = csrfToken']_vars

\* One acquisition was started and has failed, and two callers were rejected
\* by it.
C26_Witness ==
  /\ initializationCount = 1 /\ gh.csrfSettled = 1
  /\ \E t \in Csrfs : tasks[t].phase = "err"
  /\ Cardinality({w \in Reqs \cup Inits :
                    tasks[w].phase = "err" /\ tasks[w].res \in {"SEC", "ECSRF"}}) >= 2

\* C27: when the forced CSRF refresh that a 403 answer started fails, the
\* request that had received the 403 is rejected with 'Security token
\* validation failed': it is not sent again and no access-token refresh is
\* started for it.
C27_RecoveryFailureTerminal ==
  [][\A t \in Csrfs : (AcquisitionSettles(t) /\ tasks'[t].phase = "err") =>
       \A w \in Waiters(t) : tasks[w].stack # <<>> =>
         /\ tasks'[w].phase = "err"
         /\ Len(tasks[w].stack) = 1 => tasks'[w].res = "SEC"
         /\ Len(tasks'[w].stack) <= Len(tasks[w].stack)
         /\ tasks'[w].stack[1].n403 = tasks[w].stack[1].n403
         /\ tasks'[w].stack[1].n401 = tasks[w].stack[1].n401
         /\ tasks'[w].stack[1].rt = tasks[w].stack[1].rt
         /\ ls'.token = ls.token]_vars

\* A request was answered 403 once, the refresh of the CSRF token failed and
\* the request ended with the terminal error without having been sent again.
C27_Witness ==
  \E w \in Reqs :
    /\ tasks[w].phase = "err" /\ tasks[w].res = "SEC"
    /\ tasks[w].stack[1].r403 = 1 /\ tasks[w].stack[1].n403 = 0
    /\ tasks[w].stack[1].n401 = 0 /\ ~tasks[w].stack[1].rt

\* C28: every state-changing request of the owner client that is on the
\* network carries an X-CSRFToken header, and the request that fetches the
\* CSRF token never carries one.
C28_HeaderOnEveryWrite ==
  \A t \in Tasks : tasks[t].phase = "inflight" =>
    LET f == Top(tasks[t])
    IN  /\ isStateChangingMethod(f.kind) => f.xcsrf # 0
        /\ isCSRFRequest(f) => f.xcsrf = 0

\* C29: an owner login rejected because the account is not verified stores
\* pendingVerificationEmail (the name typed) and pendingUserType and leaves a
\* login error with requiresVerification; a login rejected for any other
\* reason writes neither marker.
C29_RejectedLogin ==
  [][gh'.did.op = "ownerLogin" =>
       /\ gh'.did.out = "E400"
            => /\ ls'.pendingVerificationEmail = gh'.did.arg
               /\ ls'.pendingUserType = OwnerType
               /\ auth'.loginError /\ auth'.requiresVerification
       /\ gh'.did.out \notin {"E400", "OK", "200u", "200n", "2fau"}
            => /\ ls'.pendingVerificationEmail = ls.pendingVerificationEmail
               /\ ls'.pendingUserType = ls.pendingUserType
               /\ auth'.loginError /\ ~auth'.requiresVerification]_vars

\* A login has just been rejected as 'not verified' and left its markers.
C29_Witness ==
  /\ gh.did.op = "ownerLogin" /\ gh.did.out = "E400"
  /\ gh.did.arg \in Emails
  /\ ls.pendingVerificationEmail = gh.did.arg
  /\ auth.requiresVerification

\* C30: when loadUserFromToken fails, storage holds neither token nor
\* refreshToken, the token and refreshToken of the session state are null,
\* user is null and isAuthenticated is false.
C30_HydrateFailureClears ==
  (gh.did.op = "me" /\ gh.did.out # "OK")
    => /\ ls.token = 0 /\ ls.refreshToken = 0
       /\ auth.token = 0 /\ auth.refreshToken = 0
       /\ auth.user = 0 /\ ~auth.isAuthenticated

\* C31: socialLogin with a provider other than google and facebook fails with
\* an 'unsupported provider' error, sends nothing and leaves isAuthenticated,
\* user and the tokens as they were.
C31_UnsupportedProvider ==
  [][(gh'.did.op = "socialLogin" /\ gh'.did.arg \notin {Google, Facebook})
       => /\ gh'.did.out = "Unsupported provider"
          /\ tasks' = tasks /\ srv' = srv
          /\ auth'.isAuthenticated = auth.isAuthenticated
          /\ auth'.user = auth.user
          /\ auth'.token = auth.token /\ auth'.refreshToken = auth.refreshToken
          /\ ls'.token = ls.token /\ ls'.refreshToken = ls.refreshToken]_vars

\* The session state and storage that a fulfilled ownerLogin would have left,
\* had the call t that settles in this step been an ownerLogin answered with
\* the same body.
AsOwnerLogin(t, body) ==
  LET S == [St EXCEPT !.tasks[t].op = "ownerLogin"]
      R == SettleOther(S, t, "ok", body, "none")
  IN  [auth |-> R.auth, ls |-> R.ls]

\* C32: for the same server response a fulfilled socialLogin leaves the
\* session state and storage as a fulfilled ownerLogin does, and a requires_2fa
\* response does not authenticate.
C32_SocialLikePassword ==
  [][\A t \in Sess :
       (tasks[t].op = "socialLogin" /\ tasks[t].phase = "inflight"
          /\ tasks'[t].phase = "free" /\ gh'.did.op = "socialLogin"
          /\ gh'.did.out \in {"OK"} \cup Bodies)
         => /\ [auth |-> auth', ls |-> ls'] = AsOwnerLogin(t, gh'.did.out)
            /\ (gh'.did.out \in {"2fa", "2fau"} /\ ~auth.isAuthenticated)
                 => ~auth'.isAuthenticated]_vars

\* The hydrate that has just been fulfilled followed a successful login as the
\* next thing the user did, and the server returned the user record that the
\* login response had carried.
HydratedAfterLogin ==
  /\ gh.did.op = "me" /\ gh.did.out \in {"OK", "200u", "200n"}
  /\ gh.rec.body = gh.did.out
  /\ gh.ops = gh.rec.at + 1

\* C37: after a successful login, loading the app again and running
\* loadUserFromToken against the same server user record gives the user, the
\* email_verified value and the isAuthenticated the session had right after
\* the login, also when the record has no email_verified field.
C37_HydrateRoundTrip ==
  HydratedAfterLogin
    => /\ auth.user = gh.rec.user
       /\ email_verified(auth.user) = email_verified(gh.rec.user)
       /\ auth.isAuthenticated

\* The thunk named in gh.did has just been fulfilled.
JustFulfilled ==
  \/ gh.did.op = "ownerLogin" /\ gh.did.out \in {"OK", "200u", "200n", "2fau"}
  \/ gh.did.op = "socialLogin" /\ gh.did.out \in {"OK"} \cup Bodies
  \/ gh.did.op = "me" /\ gh.did.out \in {"OK", "200u", "200n"}
  \/ gh.did.op \in {"verify2FACode", "verifyEmailCode"} /\ gh.did.out = "OK"

\* The session state and storage after the fulfilled action of gh.did is
\* applied once more, with the same response.
AppliedAgain ==
  LET t == Slot(St)
      S == [St EXCEPT !.tasks[t] = [FreeTask EXCEPT !.op = gh.did.op, !.phase = "inflight",
                                      !.arg = gh.did.arg, !.stack = <<NewConfig("data")>>]]
      R == SettleOther(S, t, "ok", gh.did.out, "none")
  IN  [auth |-> R.auth, ls |-> R.ls]

\* C36: applying the fulfilled action of ownerLogin, verify2FACode,
\* verifyEmailCode, loadUserFromToken or socialLogin a second time with the
\* same response leaves session state and storage as the first application
\* left them.
C36_SuccessIdempotent ==
  JustFulfilled => AppliedAgain = [auth |-> auth, ls |-> ls]

\* A hydrate was fulfilled with a record that has no email_verified field, and
\* applying the fulfilled action again gives the same user.
C36_Witness ==
  /\ JustFulfilled /\ gh.did.op = "me" /\ gh.did.out = "200n"
  /\ auth.isAuthenticated /\ auth.user = UserData
  /\ AppliedAgain.auth.user = UserData

\* C33: with the session fixed and loading false, following the redirects of
\* PublicRoute, ProtectedRoute, VerifyEmailRoute and AutoRedirectHandler from
\* any start path never comes back to a location already visited, so it ends
\* at a route that renders without redirecting (sessions with no 2FA
\* challenge pending, the snapshot the statement names).
C33_NoRedirectLoop == ~auth.requires2FA => ~gh.loc.loop


\* C34: the two recovery paths exclude each other per request: a request
\* resent once after a 403 is never resent after a 401, nor the other way
\* round, so every original request is sent at most twice; of every config
\* of the owner client and of every request of the customer client.
C34_RecoveryExclusive ==
  /\ \A t \in Tasks : \A i \in 1..Len(tasks[t].stack) :
       tasks[t].stack[i].n403 + tasks[t].stack[i].n401 <= 1
  /\ \A t \in Reqs : cust.reqs[t].n403 + cust.reqs[t].n401 <= 1


\* C35: the GET /auth/csrf/ request never carries a CSRF token and a 403
\* answer to it never starts CSRF recovery (no force-refresh, no resend):
\* of the owner client's marked request and of the customer client's
\* csrfService.getToken request.
C35_CsrfFetchExempt ==
  /\ \A t \in Tasks : \A i \in 1..Len(tasks[t].stack) :
       LET f == tasks[t].stack[i]
       IN  isCSRFRequest(f) => (f.xcsrf = 0 /\ ~f.cr /\ f.n403 = 0)
  /\ \A t \in Reqs :
       LET r == cust.reqs[t]
       IN  r.csrfget => (r.xcsrf = 0 /\ r.n403 = 0 /\ r.phase # "recover403")


\* C39: one performLogout sends at most one POST /auth/logout/: the one of
\* the logout thunk it awaits.  No other call of authService.logout is made
\* on its behalf, neither by its catch branch nor by logoutOwner.
C39_OneLogoutPost ==
  \A t \in Tasks :
    (tasks[t].phase # "free" /\ tasks[t].by \in {"perform", "catch"}) =>
       (tasks[t].op = "logout" /\ tasks[t].by = "perform")


\* C38: in every reachable state the in-memory CSRF token of the owner HTTP
\* client equals the csrfToken value in storage (both absent or the same
\* value).
C38_CacheCoherent == csrfToken = ls.csrfToken

====
